---- MODULE Spec2Model ----
(***************************************************************************)
(* Cross-chain bridge orchestration of arc-treasury.                       *)
(*                                                                         *)
(* The module models the React hook useBridgeCCTP (the burn / attest /     *)
(* mint state machine with its localStorage record store, its start-up     *)
(* reconciler, claimPendingBridge, restorePendingBurn, clearPendingBurn    *)
(* and reset) together with the environment it talks to: the wallet, the   *)
(* two chains, the attestation service and third-party relayers.  The hook *)
(* useBridgeWrapperSepolia (bridgeToArc) is modelled next to it under its  *)
(* own specification.                                                      *)
(*                                                                         *)
(* Every asynchronous handler is cut at its awaits: one action per         *)
(* synchronous stretch of code, with the handler's closure variables       *)
(* (address, account.chainId, the burn hash) kept as locals of the         *)
(* process.                                                                *)
(***************************************************************************)
EXTENDS Naturals, FiniteSets, Sequences, TLC

(* ---------------------------------------------------------------- bounds *)
\* Number of burn transactions (fresh transaction hashes) one behaviour creates.
MaxBurns == 2
\* Attestation polls of one bridge() run; stands for MAX_ATTEMPTS (150).
MAX_ATTEMPTS == 2
\* Chain-id polls after a switch request; stands for the literal 10.
SWITCH_ATTEMPTS == 2
\* Attestation polls of pollForAttestation; stands for ATTESTATION_MAX_ATTEMPTS (30).
ATTESTATION_MAX_ATTEMPTS == 2
\* Operations the user starts in one behaviour: bridge, claim, restore, dismiss,
\* reset, page load, account change.
MaxCalls == 3
\* Invocations of bridgeToSolana / bridgeFromSolana whose promise can be
\* outstanding at the same time.
MaxSolanaCalls == 2
\* Calls made to the BridgeWrapper contract in one behaviour.
MaxContractCalls == 3
\* Width of the contract's unsigned integers; stands for the 256 of uint256.
UINT_BITS == 16

(* ------------------------------------------------------------- constants *)
Networks  == {"ethereumSepolia", "arcTestnet"}
Addresses == {"A", "B"}
Hashes    == { <<"h1", "h2", "h3">>[i] : i \in 1..MaxBurns }
Amounts   == {"0", "5"}

\* the JavaScript null of a PendingBurn | null
Null == [null |-> TRUE]

OtherNetwork(n) == IF n = "ethereumSepolia" THEN "arcTestnet" ELSE "ethereumSepolia"

\* the i-th fresh transaction hash
HashOf(i) == <<"h1", "h2", "h3">>[i]

\* The texts a user can paste into the restore form, by the three properties
\* of a text that matter to the hook: its length, whether it starts with "0x",
\* and whether what follows the prefix is made of hexadecimal digits only.
\* The hashes of real burns are 0x + 64 hexadecimal digits.
HASH_LENGTH == 66
TxHashInputs == Hashes \cup {"", "nope", "0xshort", "0xnothex"}
Text(s) ==
  CASE s = ""         -> [length |-> 0,  startsWith0x |-> FALSE, hexDigits |-> TRUE]
    [] s = "nope"     -> [length |-> HASH_LENGTH, startsWith0x |-> FALSE, hexDigits |-> FALSE]
    [] s = "0xshort"  -> [length |-> 10, startsWith0x |-> TRUE,  hexDigits |-> TRUE]
    [] s = "0xnothex" -> [length |-> HASH_LENGTH, startsWith0x |-> TRUE, hexDigits |-> FALSE]
    [] OTHER          -> [length |-> HASH_LENGTH, startsWith0x |-> TRUE, hexDigits |-> TRUE]


(* ------------------------------------------------------- error messages *)
\* The messages the handlers throw themselves and the classes of message the
\* wallet, the RPC node and the SDK throw.  A message is known to the model
\* by the substrings the handlers test with String.prototype.includes.
Messages ==
  { "User rejected the request",                   \* wallet: user rejection
    "Nonce already used",                          \* destination contract revert
    "Nonce already used (chain: Arc Testnet)",     \* the same revert, request details attached
    "Request already pending",                     \* wallet: a request is already open
    "The current chain of the wallet does not match the target chain", \* viem ChainMismatchError
    "An error occurred when attempting to switch chain", \* viem SwitchChainError
    "RPC error",                                   \* anything else
    "allowance read failed",
    "Bridge transaction failed",                   \* useBridgeCCTP.ts:556
    "Mint transaction failed",                     \* useBridgeCCTP.ts:738
    "Network switch timeout",                      \* useBridgeCCTP.ts:680, 1411
    "Network not switched: current, expected",     \* useBridgeCCTP.ts:694, 1432
    "Attestation is still being processed",        \* useBridgeCCTP.ts:1357, 1369
    "Message bytes not found in attestation response", \* useBridgeCCTP.ts:1373
    "Failed to switch network",                    \* useBridgeCCTP.ts:430, 1415
    "Transaction rejected by user",                \* useBridgeCCTP.ts:1194
    "Token approval failed",                       \* useBridgeCCTP.ts:1198
    "Mint was not completed. Your funds are safe", \* useBridgeCCTP.ts:1045, 1263
    "Approval completed. Please try again",        \* useBridgeCCTP.ts:1100
    "Approval transaction pending",                \* useBridgeCCTP.ts:1117
    "Transaction was cancelled" }                  \* useBridgeCCTP.ts:1175

Substrings(msg) ==
  CASE msg = "User rejected the request" -> {"User rejected"}
    [] msg = "Nonce already used" -> {"Nonce already used", "already"}
    [] msg = "Nonce already used (chain: Arc Testnet)" -> {"Nonce already used", "already", "chain"}
    [] msg = "Request already pending" -> {"already"}
    [] msg = "The current chain of the wallet does not match the target chain" ->
         {"chain", "does not match", "current"}
    [] msg = "An error occurred when attempting to switch chain" -> {"chain"}
    [] msg = "allowance read failed" -> {"allowance"}
    [] msg = "Network not switched: current, expected" -> {"not switched", "current", "expected"}
    [] msg = "Failed to switch network" -> {"network"}
    [] OTHER -> {}

includes(msg, s) == s \in Substrings(msg)

isNetworkError(msg) ==
  \/ includes(msg, "chain")
  \/ includes(msg, "network")
  \/ includes(msg, "Chain ID")
  \/ includes(msg, "not switched")
  \/ includes(msg, "does not match")
  \/ (includes(msg, "current") /\ includes(msg, "expected"))

(* -------------------------------------------------------------- variables *)
VARIABLES
  \* ---- environment
  store,          \* localStorage[PENDING_BURN_STORAGE_KEY]: address -> PendingBurn | null
  burn,           \* chain truth per hash: "none" | "sent" | "reverted" | "confirmed"
  burnFrom,       \* source network of the burn
  att,            \* attestation service per hash: "none" | "pending" | "ready"
  minted,         \* hashes whose message the destination has received (nonce used)
  mintTxs,        \* mint transactions submitted per hash
  walletChain,    \* the chain the wallet provider reports (eth_chainId)
  nextHash,       \* index of the next fresh transaction hash
  calls,          \* operations the user has started so far
  \* ---- useBridgeCCTP: React state and refs
  address,        \* account.address
  state,          \* BridgeState: isBridging, isClaiming, error, mintConfirmed, pendingBurn
  attestationStatus,
  refs,           \* mintConfirmedRef, mintTxHashRef, burnConfirmedRef, burnTxHashRef, approval refs
  toast,          \* the last outcome toast shown
  \* ---- useBridgeCCTP: the running handlers
  b,              \* bridge(): pc and closure variables
  c,              \* claimPendingBridge(): one record per slot ("auto", "user")
  r,              \* verifyAndLoad(): pc and closure variables
  x,              \* restorePendingBurn(): pc and closure variables
  autoClaimTimer, \* setTimeout(() => claimPendingBridgeRef.current?.(), 1000) pending
  \* ---- useBridgeWrapperSepolia
  w,              \* state, isPollingRef and the running bridgeToArc
  \* ---- useBridgeSolana
  sol,            \* state and the running bridgeToSolana / bridgeFromSolana calls
  \* ---- BridgeWrapper.sol
  contract        \* storage of the fee contract and the outcome of the last call

envVars  == <<store, burn, burnFrom, att, minted, mintTxs, walletChain, nextHash, calls>>
hookVars == <<address, state, attestationStatus, refs, toast>>
procVars == <<b, c, r, x, autoClaimTimer>>
vars     == <<envVars, hookVars, procVars, w, sol, contract>>

(* ----------------------------------------------------------- record store *)
\* Date.now(): the clock a record is stamped with; it advances with the
\* operations the user starts
now == calls

\* a PendingBurn object built now (useBridgeCCTP.ts:73-79)
PendingBurn(h, from, to, amt) ==
  [txHash |-> h, fromNetwork |-> from, toNetwork |-> to, amount |-> amt, timestamp |-> now]

PendingBurns ==
  { PendingBurn(h, f, OtherNetwork(f), a) : h \in Hashes \cup {"null"}, f \in Networks, a \in Amounts }

\* savePendingBurn(address, pendingBurn) applied to the stored object
savePendingBurn(data, a, pendingBurn) ==
  IF pendingBurn # Null
    THEN [k \in Addresses |-> IF k = a THEN pendingBurn ELSE Null]
    ELSE [data EXCEPT ![a] = Null]

loadPendingBurn(data, a) == data[a]

(* --------------------------------------------------- BridgeWrapper.sol *)
\* uint256 arithmetic is checked (pragma solidity ^0.8.20): a product above the
\* largest value and a difference below zero revert the call
UintMax == 2^UINT_BITS - 1

\* BridgeWrapper.sol:50
MAX_FEE_BP == 1000

\* the outcome of a call that has not been made
NoCall == [fn |-> "none", outcome |-> "none", amount |-> 0, fee |-> 0, bridgeAmount |-> 0]

\* the contract before its deployment
Undeployed ==
  [deployed |-> FALSE, feeBasisPoints |-> 0, totalFeesCollected |-> 0, balance |-> 0,
   ops |-> 0, last |-> NoCall]

(* ------------------------------------------------------------------ Init *)
InitialState ==
  [isBridging |-> FALSE, isClaiming |-> FALSE, error |-> "null",
   mintConfirmed |-> FALSE, pendingBurn |-> Null]

InitialRefs ==
  [mintConfirmedRef |-> FALSE, mintTxHashRef |-> "null", burnConfirmedRef |-> FALSE,
   burnTxHashRef |-> "null", approvalConfirmedRef |-> FALSE, approvalStartedRef |-> FALSE]

BIdle == [pc |-> "idle", addr |-> "A", chain |-> "ethereumSepolia", from |-> "ethereumSepolia",
          hash |-> "null", attempts |-> 0, messageBytes |-> "null", attestationBytes |-> "null"]
CIdle == [pc |-> "idle", rec |-> Null, addr |-> "A", chain |-> "ethereumSepolia",
          dest |-> "arcTestnet", attempts |-> 0, messageBytes |-> "null",
          attestation |-> "null"]
RIdle == [pc |-> "idle", saved |-> Null, addr |-> "A", chain |-> "ethereumSepolia"]
XIdle == [pc |-> "idle", hash |-> "null", addr |-> "A", fromNetwork |-> "ethereumSepolia"]
\* useBridgeWrapperSepolia: its state (part_002:147-157), isPollingRef, and the
\* running bridgeToArc (pc, its burn hash, its closure's account.chainId)
WState == [step |-> "idle", error |-> "null", burnTxHash |-> "null", claimTxHash |-> "null",
           isBridging |-> FALSE, isClaiming |-> FALSE]
WInit == [state |-> WState, isPollingRef |-> FALSE,
          pc |-> "idle", hash |-> "null", chain |-> "ethereumSepolia", attempts |-> 0,
          messageBytes |-> "null", attestation |-> "null"]

Slots == {"auto", "user"}

\* BridgeState of useBridgeSolana (useBridgeSolana.ts:40-47); transactions is
\* kept as the status of its Burn and Mint entries
SolTransactions == [Burn |-> "none", Mint |-> "none"]

\* useBridgeSolana.ts:63-70
initialState ==
  [isBridging |-> FALSE, error |-> "null", transactions |-> SolTransactions,
   attestationStatus |-> "idle", attestationProgress |-> 0, result |-> "null"]

SolDirections == {"toSolana", "fromSolana"}

\* one invocation: where the kit is, the direction, and whether the kit has
\* reported MINT_CONFIRMED
SolIdle == [pc |-> "idle", dir |-> "toSolana", mintConfirmed |-> FALSE]

SolCalls == 1..MaxSolanaCalls

SolInit == [state |-> initialState, call |-> [k \in SolCalls |-> SolIdle]]

Init ==
  /\ store = [a \in Addresses |-> Null]
  /\ burn = [h \in Hashes |-> "none"]
  /\ burnFrom = [h \in Hashes |-> "ethereumSepolia"]
  /\ att = [h \in Hashes |-> "none"]
  /\ minted = {}
  /\ mintTxs = [h \in Hashes |-> 0]
  /\ walletChain \in Networks
  /\ nextHash = 1
  /\ calls = 0
  /\ address = "A"
  /\ state = InitialState
  /\ attestationStatus = "null"
  /\ refs = InitialRefs
  /\ toast = "none"
  /\ b = BIdle
  /\ c = [s \in Slots |-> CIdle]
  /\ r = RIdle
  /\ x = XIdle
  /\ autoClaimTimer = FALSE
  /\ w = WInit
  /\ sol = SolInit
  /\ contract = Undeployed

(* ----------------------------------------------------------- environment *)
\* The attestation service indexes a confirmed burn, then signs it.
AttestationProgress(h) ==
  /\ burn[h] = "confirmed"
  /\ att[h] # "ready"
  /\ att' = [att EXCEPT ![h] = IF att[h] = "none" THEN "pending" ELSE "ready"]
  /\ UNCHANGED <<store, burn, burnFrom, minted, mintTxs, walletChain, nextHash, calls,
                 hookVars, procVars, w, sol, contract>>

\* Anyone may relay an attested message (destinationCaller is zero).
RelayerMints(h) ==
  /\ att[h] = "ready"
  /\ h \notin minted
  /\ minted' = minted \cup {h}
  /\ UNCHANGED <<store, burn, burnFrom, att, mintTxs, walletChain, nextHash, calls,
                 hookVars, procVars, w, sol, contract>>

\* The wallet changes network: the user does it, or a requested switch lands late.
WalletChainChanged(n) ==
  /\ walletChain # n
  /\ walletChain' = n
  /\ UNCHANGED <<store, burn, burnFrom, att, minted, mintTxs, nextHash, calls,
                 hookVars, procVars, w, sol, contract>>

\* What GET CIRCLE_ATTESTATION_API&domain=..&transactionHash=h can answer.
\* kind: "throw" (fetch or json() rejects), "http_error" (non-200, no messages),
\* "empty" (no messages), "msg" (messages[0] with its attestation and message
\* fields; a field that is absent or empty is "").
Response(kind, attestation, message) ==
  [kind |-> kind, attestation |-> attestation, message |-> message]

Responses ==
  { Response("throw", "", ""), Response("http_error", "", ""), Response("empty", "", ""),
    Response("msg", "PENDING", ""), Response("msg", "", ""),
    Response("msg", "0xatt", "0xmsg"), Response("msg", "0xatt", "") }

\* The service has a message for h only under the domain the burn was made on.
\* Before the attestation is signed its attestation field is 'PENDING' or
\* absent; a signed answer normally carries the message bytes, and one
\* without them is a malformed answer the hooks have to be ready for.
FetchAttestation(domainOf, h) ==
  { Response("throw", "", ""), Response("http_error", "", "") } \cup
  ( IF h \in Hashes /\ burn[h] = "confirmed" /\ burnFrom[h] = domainOf /\ att[h] # "none"
      THEN IF att[h] = "ready"
             THEN { Response("msg", "0xatt", "0xmsg"), Response("msg", "0xatt", "") }
             ELSE { Response("msg", "PENDING", ""), Response("msg", "", "") }
      ELSE { Response("empty", "", "") } )

hasMessages(resp) == resp.kind = "msg"

attestationUsable(resp) ==
  resp.kind = "msg" /\ resp.attestation # "" /\ resp.attestation # "PENDING"

(* ------------------------------------------------- useBridgeCCTP: bridge *)
chainVars == <<burn, burnFrom, att, minted, mintTxs>>
otherProcs == <<c, r, x, autoClaimTimer, w, sol, contract>>

\* what a wallet request (writeContract, sendTransaction) can reject with
WalletErrors == {"User rejected the request", "Request already pending", "RPC error"}
\* what the destination contract answers to a message it has already received
NonceErrors == {"Nonce already used", "Nonce already used (chain: Arc Testnet)"}
\* what wallet_switchEthereumChain can reject with
SwitchErrors == {"User rejected the request", "An error occurred when attempting to switch chain"}

BridgeAmount == "5"

\* the record bridge() builds from its arguments and a burn hash
BridgeRecord(h) == PendingBurn(h, b.from, OtherNetwork(b.from), BridgeAmount)

\* bridge(): entry up to the first await (useBridgeCCTP.ts:385-436)
Bridge(fromNetwork, amount) ==
  /\ b.pc = "idle"
  /\ ~state.isBridging
  /\ calls < MaxCalls
  /\ calls' = calls + 1
  /\ IF amount = "0"
       THEN /\ toast' = "error:Please enter a valid amount"
            /\ UNCHANGED <<store, chainVars, walletChain, nextHash, address, state,
                           attestationStatus, refs, procVars, w, sol, contract>>
       ELSE /\ store' = savePendingBurn(store, address, Null)
            /\ state' = [InitialState EXCEPT !.isBridging = TRUE]
            /\ attestationStatus' = "null"
            /\ refs' = InitialRefs
            /\ b' = [BIdle EXCEPT !.pc = IF walletChain # fromNetwork THEN "src_switch"
                                          ELSE IF fromNetwork = "ethereumSepolia" THEN "allowance"
                                          ELSE "sdk_approve",
                                  !.addr = address, !.chain = walletChain, !.from = fromNetwork]
            /\ UNCHANGED <<chainVars, walletChain, nextHash, address, toast, otherProcs>>

\* the catch of bridge() (useBridgeCCTP.ts:1184-1287)
normalizedError(msg) ==
  IF includes(msg, "User rejected") \/ includes(msg, "user rejected") \/ includes(msg, "User denied")
    THEN "Transaction rejected by user"
  ELSE IF includes(msg, "insufficient funds") THEN "Insufficient funds for gas"
  ELSE IF includes(msg, "allowance") THEN "Token approval failed"
  ELSE msg

\* a catch that takes any failure for one after the burn, without reading
\* burnConfirmedRef
BridgeCatchAssumesBurn(msg) ==
  /\ b' = BIdle
  /\ attestationStatus' = "pending_mint"
  /\ toast' = "warning:Your funds are safe!"
  /\ store' = savePendingBurn(store, b.addr, BridgeRecord(refs.burnTxHashRef))
  /\ state' = [state EXCEPT !.isBridging = FALSE,
                 !.error = "Mint was not completed. Your funds are safe",
                 !.mintConfirmed = FALSE,
                 !.pendingBurn = BridgeRecord(refs.burnTxHashRef)]

BridgeCatch(msg) ==
  LET errorMsg == normalizedError(msg) IN
  /\ b' = BIdle
  /\ IF isNetworkError(errorMsg) /\ refs.burnConfirmedRef
       THEN /\ toast' = "error:Network switch required"
            /\ state' = [state EXCEPT !.isBridging = FALSE,
                                      !.pendingBurn = BridgeRecord(refs.burnTxHashRef)]
            /\ UNCHANGED <<store, attestationStatus>>
     ELSE IF refs.burnConfirmedRef /\ refs.burnTxHashRef # "null"
       THEN IF refs.mintConfirmedRef
              THEN UNCHANGED <<store, attestationStatus, state, toast>>
              ELSE /\ attestationStatus' = "pending_mint"
                   /\ toast' = "warning:Your funds are safe!"
                   /\ store' = savePendingBurn(store, b.addr, BridgeRecord(refs.burnTxHashRef))
                   /\ state' = [state EXCEPT !.isBridging = FALSE,
                                  !.error = "Mint was not completed. Your funds are safe",
                                  !.mintConfirmed = FALSE,
                                  !.pendingBurn = BridgeRecord(refs.burnTxHashRef)]
     ELSE /\ attestationStatus' = "null"
          /\ state' = [state EXCEPT !.isBridging = FALSE, !.error = errorMsg,
                                    !.mintConfirmed = FALSE]
          /\ toast' = "error:Bridge cancelled"
          /\ UNCHANGED store

\* switch to the source network (useBridgeCCTP.ts:424-436)
BridgeSourceSwitch ==
  /\ b.pc = "src_switch"
  /\ \/ \E landed \in BOOLEAN :
          /\ walletChain' = IF landed THEN b.from ELSE walletChain
          /\ b' = [b EXCEPT !.pc = IF b.from = "ethereumSepolia" THEN "allowance" ELSE "sdk_approve"]
          /\ UNCHANGED <<state, toast>>
     \/ /\ state' = [isBridging |-> FALSE, isClaiming |-> FALSE, error |-> "Failed to switch network",
                     mintConfirmed |-> FALSE, pendingBurn |-> Null]
        /\ toast' = "error:Failed to switch network"
        /\ b' = BIdle
        /\ UNCHANGED walletChain
  /\ UNCHANGED <<store, chainVars, nextHash, calls, address, attestationStatus, refs,
                 otherProcs>>

\* Sepolia -> Arc, step 1: allowance read (useBridgeCCTP.ts:485-493)
BridgeAllowance ==
  /\ b.pc = "allowance"
  /\ \/ \E enough \in BOOLEAN :
          /\ b' = [b EXCEPT !.pc = IF enough THEN "burn_send" ELSE "approve"]
          /\ UNCHANGED <<store, state, attestationStatus, toast>>
     \/ BridgeCatch("allowance read failed")
  /\ UNCHANGED <<chainVars, walletChain, nextHash, calls, address, refs, otherProcs>>

\* approve and wait for its receipt (useBridgeCCTP.ts:494-503)
BridgeApprove ==
  /\ b.pc = "approve"
  /\ \/ /\ b' = [b EXCEPT !.pc = "burn_send"]
        /\ UNCHANGED <<store, state, attestationStatus, toast>>
     \/ \E msg \in WalletErrors : BridgeCatch(msg)
  /\ UNCHANGED <<chainVars, walletChain, nextHash, calls, address, refs, otherProcs>>

\* step 2: send the burn (useBridgeCCTP.ts:542-551)
BridgeBurnSend ==
  /\ b.pc = "burn_send"
  /\ \/ /\ walletChain = "ethereumSepolia"
        /\ nextHash <= MaxBurns
        /\ LET h == HashOf(nextHash) IN
           /\ burn' = [burn EXCEPT ![h] = "sent"]
           /\ burnFrom' = [burnFrom EXCEPT ![h] = "ethereumSepolia"]
           /\ refs' = [refs EXCEPT !.burnTxHashRef = h, !.burnConfirmedRef = TRUE]
           /\ b' = [b EXCEPT !.pc = "burn_wait", !.hash = h]
        /\ nextHash' = nextHash + 1
        /\ UNCHANGED <<store, state, attestationStatus, toast>>
     \/ /\ \E msg \in WalletErrors \cup
                 (IF walletChain # "ethereumSepolia"
                    THEN {"The current chain of the wallet does not match the target chain"}
                    ELSE {}) : BridgeCatch(msg)
        /\ UNCHANGED <<burn, burnFrom, refs, nextHash>>
  /\ UNCHANGED <<att, minted, mintTxs, walletChain, calls, address, otherProcs>>

\* wait for the burn receipt (useBridgeCCTP.ts:553-564)
BridgeBurnReceipt ==
  /\ b.pc = "burn_wait"
  /\ \/ /\ burn' = [burn EXCEPT ![b.hash] = "confirmed"]
        /\ attestationStatus' = "pending"
        /\ b' = [b EXCEPT !.pc = "poll", !.attempts = 0]
        /\ UNCHANGED <<store, state, toast>>
     \/ /\ burn' = [burn EXCEPT ![b.hash] = "reverted"]
        /\ BridgeCatch("Bridge transaction failed")
     \/ /\ UNCHANGED burn
        /\ BridgeCatch("RPC error")
  /\ UNCHANGED <<burnFrom, att, minted, mintTxs, walletChain, nextHash, calls, address,
                 refs, otherProcs>>

\* one turn of the attestation poll loop, and what follows the loop
\* (useBridgeCCTP.ts:577-651)
BridgePoll ==
  /\ b.pc = "poll"
  /\ \E resp \in FetchAttestation("ethereumSepolia", b.hash) :
       IF resp.kind # "throw" /\ resp.kind # "http_error" /\ attestationUsable(resp)
            /\ resp.message # ""
         THEN /\ attestationStatus' = "pending_mint"
              /\ b' = [b EXCEPT !.pc = IF b.chain # "arcTestnet" THEN "mint_switch" ELSE "final_check",
                                !.attempts = 0,
                                !.messageBytes = resp.message,
                                !.attestationBytes = resp.attestation]
              /\ UNCHANGED <<store, state, toast>>
       ELSE IF ~(resp.kind # "throw" /\ resp.kind # "http_error" /\ attestationUsable(resp))
               /\ b.attempts + 1 < MAX_ATTEMPTS
         THEN /\ b' = [b EXCEPT !.attempts = b.attempts + 1]
              /\ UNCHANGED <<store, state, attestationStatus, toast>>
       ELSE /\ toast' = "warning:Attestation taking longer than expected"
            /\ store' = savePendingBurn(store, b.addr, BridgeRecord(b.hash))
            /\ attestationStatus' = "pending_mint"
            /\ state' = [state EXCEPT !.isBridging = FALSE, !.pendingBurn = BridgeRecord(b.hash)]
            /\ b' = BIdle
  /\ UNCHANGED <<chainVars, walletChain, nextHash, calls, address, refs, otherProcs>>

\* the catch around the mint of bridge() (useBridgeCCTP.ts:740-794)
MintCatch(msg) ==
  /\ b' = BIdle
  /\ IF isNetworkError(msg)
       THEN /\ toast' = "error:Network switch required"
            /\ state' = [state EXCEPT !.isBridging = FALSE, !.pendingBurn = BridgeRecord(b.hash)]
            /\ UNCHANGED <<store, attestationStatus>>
     ELSE IF includes(msg, "Nonce already used") \/ includes(msg, "already")
       THEN /\ attestationStatus' = "complete"
            /\ store' = savePendingBurn(store, b.addr, Null)
            /\ toast' = "success:Bridge completed!"
            /\ state' = [state EXCEPT !.isBridging = FALSE, !.mintConfirmed = TRUE,
                                      !.pendingBurn = Null]
     ELSE /\ toast' = IF refs.mintTxHashRef # "null" THEN "info:Mint transaction sent!"
                      ELSE "error:Mint failed"
          /\ state' = [state EXCEPT !.isBridging = FALSE, !.pendingBurn = BridgeRecord(b.hash)]
          /\ UNCHANGED <<store, attestationStatus>>

\* step 3: ask the wallet to switch to Arc (useBridgeCCTP.ts:655-663)
BridgeMintSwitch ==
  /\ b.pc = "mint_switch"
  /\ \/ \E landed \in BOOLEAN :
          /\ walletChain' = IF landed THEN "arcTestnet" ELSE walletChain
          /\ b' = [b EXCEPT !.pc = "verify", !.attempts = 0]
          /\ UNCHANGED <<store, state, attestationStatus, toast>>
     \/ /\ \E msg \in SwitchErrors : MintCatch(msg)
        /\ UNCHANGED walletChain
  /\ UNCHANGED <<chainVars, nextHash, calls, address, refs, otherProcs>>

\* poll eth_chainId until the switch shows (useBridgeCCTP.ts:665-682)
BridgeVerify ==
  /\ b.pc = "verify"
  /\ IF walletChain = "arcTestnet"
       THEN /\ b' = [b EXCEPT !.pc = "final_check"]
            /\ UNCHANGED <<store, state, attestationStatus, toast>>
     ELSE IF b.attempts + 1 < SWITCH_ATTEMPTS
       THEN /\ b' = [b EXCEPT !.attempts = b.attempts + 1]
            /\ UNCHANGED <<store, state, attestationStatus, toast>>
     ELSE MintCatch("Network switch timeout")
  /\ UNCHANGED <<chainVars, walletChain, nextHash, calls, address, refs, otherProcs>>

\* verify the chain once more (useBridgeCCTP.ts:684-695)
BridgeFinalCheck ==
  /\ b.pc = "final_check"
  /\ IF walletChain # "arcTestnet"
       THEN MintCatch("Network not switched: current, expected")
       ELSE /\ b' = [b EXCEPT !.pc = "mint_send"]
            /\ UNCHANGED <<store, state, attestationStatus, toast>>
  /\ UNCHANGED <<chainVars, walletChain, nextHash, calls, address, refs, otherProcs>>

\* what writeContract(receiveMessage) on network dest for hash h can throw
MintSendErrors(h, dest) ==
  WalletErrors
    \cup (IF walletChain # dest
            THEN {"The current chain of the wallet does not match the target chain"} ELSE {})
    \cup (IF h \in minted THEN NonceErrors ELSE {})

\* whether writeContract(receiveMessage) can return a transaction hash
CanSubmitMint(h, dest) == h \in Hashes /\ walletChain = dest /\ h \notin minted

\* receiveMessage on Arc (useBridgeCCTP.ts:697-725)
BridgeMintSend ==
  /\ b.pc = "mint_send"
  /\ \/ /\ CanSubmitMint(b.hash, "arcTestnet")
        /\ mintTxs' = [mintTxs EXCEPT ![b.hash] = @ + 1]
        /\ refs' = [refs EXCEPT !.mintTxHashRef = "0xmint"]
        /\ b' = [b EXCEPT !.pc = "mint_wait"]
        /\ UNCHANGED <<store, state, attestationStatus, toast>>
     \/ /\ \E msg \in MintSendErrors(b.hash, "arcTestnet") : MintCatch(msg)
        /\ UNCHANGED <<mintTxs, refs>>
  /\ UNCHANGED <<burn, burnFrom, att, minted, walletChain, nextHash, calls, address,
                 otherProcs>>

\* wait for the mint receipt (useBridgeCCTP.ts:727-739)
BridgeMintReceipt ==
  /\ b.pc = "mint_wait"
  /\ \/ /\ b.hash \notin minted
        /\ minted' = minted \cup {b.hash}
        /\ attestationStatus' = "complete"
        /\ store' = savePendingBurn(store, b.addr, Null)
        /\ toast' = "success:Bridge completed!"
        /\ state' = [state EXCEPT !.isBridging = FALSE, !.mintConfirmed = TRUE,
                                  !.pendingBurn = Null]
        /\ b' = BIdle
     \/ /\ UNCHANGED minted
        /\ MintCatch("Mint transaction failed")
     \/ /\ \E lands \in BOOLEAN : minted' = IF lands THEN minted \cup {b.hash} ELSE minted
        /\ MintCatch("RPC error")
  /\ UNCHANGED <<burn, burnFrom, att, mintTxs, walletChain, nextHash, calls, address,
                 refs, otherProcs>>

BridgeDirect ==
  \/ BridgeSourceSwitch \/ BridgeAllowance \/ BridgeApprove \/ BridgeBurnSend
  \/ BridgeBurnReceipt \/ BridgePoll \/ BridgeMintSwitch \/ BridgeVerify
  \/ BridgeFinalCheck \/ BridgeMintSend \/ BridgeMintReceipt

(* --------------------------------- bridge, Arc -> Sepolia: the Bridge Kit *)
\* bridgeKit.bridge() runs approval, burn, attestation and mint itself and
\* reports through onProgress (useBridgeCCTP.ts:799-915); it ends by
\* resolving with a result (state and steps) or by throwing.

\* result.steps as the kit reports them when it ends in stage b.pc
burnStepSuccess == b.hash # "null" /\ burn[b.hash] = "confirmed"
mintStepSuccess == b.pc = "sdk_done"

\* the code after `await bridgeKit.bridge(...)` (useBridgeCCTP.ts:917-1182),
\* up to its next await
BridgeResult(resultState) ==
  LET burnSucceeded == burnStepSuccess \/ refs.burnConfirmedRef
      mintSucceeded == mintStepSuccess \/ refs.mintConfirmedRef
      burnTxHash    == IF refs.burnTxHashRef # "null" THEN refs.burnTxHashRef ELSE b.hash
  IN
  IF resultState = "success"
    THEN /\ attestationStatus' = "complete"
         /\ toast' = "success:Bridge completed!"
         /\ state' = [state EXCEPT !.isBridging = FALSE, !.mintConfirmed = TRUE]
         /\ b' = BIdle
         /\ UNCHANGED store
  ELSE IF burnSucceeded /\ ~mintSucceeded
    THEN IF burnTxHash # "null"
           THEN /\ b' = [b EXCEPT !.pc = "relay_check", !.hash = burnTxHash]
                /\ UNCHANGED <<store, state, attestationStatus, toast>>
           ELSE /\ attestationStatus' = "pending_mint"
                /\ toast' = "warning:Your funds are safe!"
                /\ state' = [state EXCEPT !.isBridging = FALSE,
                               !.error = "Mint was not completed. Your funds are safe",
                               !.mintConfirmed = FALSE, !.pendingBurn = Null]
                /\ b' = BIdle
                /\ UNCHANGED store
  ELSE IF refs.burnConfirmedRef /\ refs.burnTxHashRef # "null"
    THEN /\ attestationStatus' = "pending_mint"
         /\ toast' = "warning:Your funds are safe!"
         /\ store' = savePendingBurn(store, b.addr, BridgeRecord(refs.burnTxHashRef))
         /\ state' = [state EXCEPT !.isBridging = FALSE, !.error = "null",
                        !.mintConfirmed = FALSE, !.pendingBurn = BridgeRecord(refs.burnTxHashRef)]
         /\ b' = BIdle
  ELSE IF refs.approvalConfirmedRef
    THEN /\ attestationStatus' = "null"
         /\ toast' = "warning:Approval successful"
         /\ state' = [state EXCEPT !.isBridging = FALSE,
                        !.error = "Approval completed. Please try again", !.mintConfirmed = FALSE]
         /\ b' = BIdle
         /\ UNCHANGED store
  ELSE IF refs.approvalStartedRef
    THEN /\ attestationStatus' = "null"
         /\ toast' = "warning:Approval pending"
         /\ state' = [state EXCEPT !.isBridging = FALSE,
                        !.error = "Approval transaction pending", !.mintConfirmed = FALSE]
         /\ b' = BIdle
         /\ UNCHANGED store
  ELSE IF b.hash # "null"
    THEN /\ attestationStatus' = "null"
         /\ b' = [b EXCEPT !.pc = "any_check"]
         /\ UNCHANGED <<store, state, toast>>
  ELSE /\ attestationStatus' = "null"
       /\ toast' = "error:Bridge cancelled"
       /\ state' = [state EXCEPT !.isBridging = FALSE, !.error = "Transaction was cancelled",
                                 !.mintConfirmed = FALSE]
       /\ b' = BIdle
       /\ UNCHANGED store

\* the kit gives up in the current stage: it throws, or resolves with state 'error'
SdkFails ==
  \/ \E msg \in WalletErrors \cup SwitchErrors : BridgeCatch(msg)
  \/ BridgeResult("error")

\* approval stage: APPROVAL_STARTED, APPROVAL_CONFIRMED
SdkApprove ==
  /\ b.pc = "sdk_approve"
  /\ \/ \E started \in BOOLEAN :
          /\ refs' = [refs EXCEPT !.approvalStartedRef = started, !.approvalConfirmedRef = started]
          /\ b' = [b EXCEPT !.pc = "sdk_burn"]
          /\ UNCHANGED <<store, state, attestationStatus, toast>>
     \/ /\ refs' = [refs EXCEPT !.approvalStartedRef = TRUE]
        /\ b' = [b EXCEPT !.pc = "sdk_approve_wait"]
        /\ UNCHANGED <<store, state, attestationStatus, toast>>
  /\ UNCHANGED <<chainVars, walletChain, nextHash, calls, address, otherProcs>>

\* BURN_STARTED: the kit submits the burn; the event carries the burn's hash
\* (progress.txHash || progress.transactionHash) or none
\* (useBridgeCCTP.ts:834-854).  b.hash is the burn the kit made.
SdkBurn ==
  /\ b.pc = "sdk_burn"
  /\ walletChain = b.from
  /\ nextHash <= MaxBurns
  /\ LET h == HashOf(nextHash) IN
     /\ burn' = [burn EXCEPT ![h] = "sent"]
     /\ burnFrom' = [burnFrom EXCEPT ![h] = b.from]
     /\ \E withHash \in BOOLEAN :
          refs' = [refs EXCEPT !.burnTxHashRef = IF withHash THEN h ELSE @]
     /\ b' = [b EXCEPT !.pc = "sdk_burn_wait", !.hash = h]
  /\ nextHash' = nextHash + 1
  /\ UNCHANGED <<store, att, minted, mintTxs, walletChain, calls, address, state,
                 attestationStatus, toast, otherProcs>>

\* BURN_CONFIRMED, with the hash or without (useBridgeCCTP.ts:856-869), then
\* ATTESTATION_PENDING; or the burn reverts
SdkBurnWait ==
  /\ b.pc = "sdk_burn_wait"
  /\ \/ /\ burn' = [burn EXCEPT ![b.hash] = "confirmed"]
        /\ \E withHash \in BOOLEAN :
             refs' = [refs EXCEPT !.burnConfirmedRef = TRUE,
                        !.burnTxHashRef = IF @ = "null" /\ withHash THEN b.hash ELSE @]
        /\ attestationStatus' = "pending"
        /\ b' = [b EXCEPT !.pc = "sdk_att"]
     \/ /\ burn' = [burn EXCEPT ![b.hash] = "reverted"]
        /\ b' = [b EXCEPT !.pc = "sdk_failed"]
        /\ UNCHANGED <<refs, attestationStatus>>
  /\ UNCHANGED <<store, burnFrom, att, minted, mintTxs, walletChain, nextHash, calls,
                 address, state, toast, otherProcs>>

\* ATTESTATION_COMPLETE
SdkAttestation ==
  /\ b.pc = "sdk_att"
  /\ att[b.hash] = "ready"
  /\ refs' = [refs EXCEPT !.burnConfirmedRef = TRUE]
  /\ attestationStatus' = "attested"
  /\ b' = [b EXCEPT !.pc = "sdk_mint"]
  /\ UNCHANGED <<envVars, address, state, toast, otherProcs>>

\* MINT_STARTED: the kit submits receiveMessage on the destination
SdkMint ==
  /\ b.pc = "sdk_mint"
  /\ CanSubmitMint(b.hash, OtherNetwork(b.from))
  /\ mintTxs' = [mintTxs EXCEPT ![b.hash] = @ + 1]
  /\ b' = [b EXCEPT !.pc = "sdk_mint_wait"]
  /\ UNCHANGED <<store, burn, burnFrom, att, minted, walletChain, nextHash, calls,
                 hookVars, otherProcs>>

\* MINT_CONFIRMED
SdkMintWait ==
  /\ b.pc = "sdk_mint_wait"
  /\ b.hash \notin minted
  /\ minted' = minted \cup {b.hash}
  /\ refs' = [refs EXCEPT !.mintConfirmedRef = TRUE]
  /\ state' = [state EXCEPT !.mintConfirmed = TRUE]
  /\ b' = [b EXCEPT !.pc = "sdk_done"]
  /\ UNCHANGED <<store, burn, burnFrom, att, mintTxs, walletChain, nextHash, calls,
                 address, attestationStatus, toast, otherProcs>>

\* the kit ends: after the mint it resolves with 'success'; in any stage it
\* may give up
SdkEnds ==
  /\ b.pc \in {"sdk_approve", "sdk_approve_wait", "sdk_burn", "sdk_failed", "sdk_att",
               "sdk_mint", "sdk_mint_wait", "sdk_done"}
  /\ \/ /\ b.pc = "sdk_done"
        /\ BridgeResult("success")
     \/ SdkFails
  /\ UNCHANGED <<chainVars, walletChain, nextHash, calls, address, refs, otherProcs>>

\* "check Circle API to see if relay already completed" (useBridgeCCTP.ts:975-1050)
BridgeRelayCheck ==
  /\ b.pc = "relay_check"
  /\ \E resp \in FetchAttestation(b.from, b.hash) :
       IF hasMessages(resp) /\ attestationUsable(resp)
         THEN /\ attestationStatus' = "complete"
              /\ toast' = "success:Bridge completed!"
              /\ state' = [state EXCEPT !.isBridging = FALSE, !.mintConfirmed = TRUE,
                                        !.pendingBurn = Null]
              /\ UNCHANGED store
       ELSE IF refs.mintConfirmedRef
         THEN UNCHANGED <<store, state, attestationStatus, toast>>
       ELSE /\ attestationStatus' = "pending_mint"
            /\ toast' = "warning:Your funds are safe!"
            /\ store' = savePendingBurn(store, b.addr, BridgeRecord(b.hash))
            /\ state' = [state EXCEPT !.isBridging = FALSE,
                           !.error = "Mint was not completed. Your funds are safe",
                           !.mintConfirmed = FALSE, !.pendingBurn = BridgeRecord(b.hash)]
  /\ b' = BIdle
  /\ UNCHANGED <<chainVars, walletChain, nextHash, calls, address, refs, otherProcs>>

\* "try to find any transaction hash in the result" (useBridgeCCTP.ts:1123-1180)
BridgeAnyTxCheck ==
  /\ b.pc = "any_check"
  /\ \E resp \in FetchAttestation(b.from, b.hash) :
       IF hasMessages(resp) /\ attestationUsable(resp)
         THEN /\ attestationStatus' = "complete"
              /\ toast' = "success:Bridge completed!"
              /\ state' = [state EXCEPT !.isBridging = FALSE, !.mintConfirmed = TRUE,
                                        !.pendingBurn = Null]
         ELSE /\ toast' = "error:Bridge cancelled"
              /\ state' = [state EXCEPT !.isBridging = FALSE,
                             !.error = "Transaction was cancelled", !.mintConfirmed = FALSE]
              /\ UNCHANGED attestationStatus
  /\ b' = BIdle
  /\ UNCHANGED <<store, chainVars, walletChain, nextHash, calls, address, refs,
                 otherProcs>>

BridgeKit ==
  \/ SdkApprove \/ SdkBurn \/ SdkBurnWait \/ SdkAttestation \/ SdkMint \/ SdkMintWait
  \/ SdkEnds \/ BridgeRelayCheck \/ BridgeAnyTxCheck

(* ------------------------------------- useBridgeCCTP: claimPendingBridge *)
otherThanClaim == <<b, r, x, w, sol, contract>>

\* claimPendingBridge(): entry up to the first await (useBridgeCCTP.ts:1304-1319)
claimPendingBridge(s) ==
  IF state.pendingBurn = Null
    THEN /\ toast' = "error:No pending burn to claim"
         /\ UNCHANGED <<state, c>>
    ELSE /\ state' = [state EXCEPT !.isClaiming = TRUE, !.error = "null"]
         /\ c' = [c EXCEPT ![s] = [pc |-> "fetch1", rec |-> state.pendingBurn, addr |-> address,
                                   chain |-> walletChain, dest |-> state.pendingBurn.toNetwork,
                                   attempts |-> 0, messageBytes |-> "null",
                                   attestation |-> "null"]]
         /\ UNCHANGED toast

\* the Claim button of the bridge page (shown with the pending-mint notice,
\* disabled while isClaiming)
UserClaim ==
  /\ c["user"].pc = "idle"
  /\ calls < MaxCalls
  /\ attestationStatus = "pending_mint"
  /\ state.pendingBurn # Null
  /\ ~state.isClaiming
  /\ calls' = calls + 1
  /\ claimPendingBridge("user")
  /\ UNCHANGED <<store, chainVars, walletChain, nextHash, address, attestationStatus,
                 refs, autoClaimTimer, otherThanClaim>>

\* the reconciler's setTimeout fires (useBridgeCCTP.ts:284-286)
AutoClaim ==
  /\ autoClaimTimer
  /\ c["auto"].pc = "idle"
  /\ autoClaimTimer' = FALSE
  /\ claimPendingBridge("auto")
  /\ UNCHANGED <<envVars, address, attestationStatus, refs, otherThanClaim>>

\* the catch of claimPendingBridge (useBridgeCCTP.ts:1497-1529)
ClaimCatch(s, msg) ==
  /\ c' = [c EXCEPT ![s] = CIdle]
  /\ IF includes(msg, "already received") \/ includes(msg, "Nonce already used")
       THEN /\ store' = savePendingBurn(store, c[s].addr, Null)
            /\ state' = [state EXCEPT !.isClaiming = FALSE, !.pendingBurn = Null, !.error = "null"]
            /\ attestationStatus' = "complete"
            /\ toast' = "success:Transfer already completed!"
       ELSE /\ state' = [state EXCEPT !.isClaiming = FALSE, !.error = msg]
            /\ toast' = "error:Claim failed"
            /\ UNCHANGED <<store, attestationStatus>>

\* the success path of claimPendingBridge (useBridgeCCTP.ts:1478-1495)
ClaimSuccess(s) ==
  /\ c' = [c EXCEPT ![s] = CIdle]
  /\ store' = savePendingBurn(store, c[s].addr, Null)
  /\ toast' = "success:USDC claimed successfully!"
  /\ attestationStatus' = "complete"
  /\ state' = [state EXCEPT !.isClaiming = FALSE, !.mintConfirmed = TRUE, !.pendingBurn = Null,
                            !.error = "null"]

\* step 1: fetch the attestation under the saved direction, then under the
\* opposite one (useBridgeCCTP.ts:1321-1386)
ClaimFetch(s) ==
  /\ c[s].pc \in {"fetch1", "fetch2"}
  /\ LET rec    == c[s].rec
         first  == c[s].pc = "fetch1"
         domain == IF first THEN rec.fromNetwork ELSE OtherNetwork(rec.fromNetwork)
         to     == IF first THEN rec.toNetwork ELSE rec.fromNetwork
     IN \E resp \in FetchAttestation(domain, rec.txHash) :
          IF resp.kind # "throw" /\ hasMessages(resp)
            THEN IF ~attestationUsable(resp)
                   THEN ClaimCatch(s, "Attestation is still being processed")
                 ELSE IF resp.message = ""
                   THEN ClaimCatch(s, "Message bytes not found in attestation response")
                   ELSE /\ c' = [c EXCEPT ![s].dest = to,
                                          ![s].pc = IF c[s].chain # to THEN "switch" ELSE "final_check",
                                          ![s].messageBytes = resp.message,
                                          ![s].attestation = resp.attestation]
                        /\ UNCHANGED <<store, state, attestationStatus, toast>>
          ELSE IF first
            THEN /\ c' = [c EXCEPT ![s].pc = "fetch2"]
                 /\ UNCHANGED <<store, state, attestationStatus, toast>>
          ELSE ClaimCatch(s, "Attestation is still being processed")
  /\ UNCHANGED <<chainVars, walletChain, nextHash, calls, address, refs, autoClaimTimer,
                 otherThanClaim>>

\* step 3: switch to the destination network (useBridgeCCTP.ts:1379-1417)
ClaimSwitch(s) ==
  /\ c[s].pc = "switch"
  /\ \/ \E landed \in BOOLEAN :
          /\ walletChain' = IF landed THEN c[s].dest ELSE walletChain
          /\ c' = [c EXCEPT ![s].pc = "verify", ![s].attempts = 0]
          /\ UNCHANGED <<store, state, attestationStatus, toast>>
     \/ /\ ClaimCatch(s, "Failed to switch network")
        /\ UNCHANGED walletChain
  /\ UNCHANGED <<chainVars, nextHash, calls, address, refs, autoClaimTimer,
                 otherThanClaim>>

ClaimVerify(s) ==
  /\ c[s].pc = "verify"
  /\ IF walletChain = c[s].dest
       THEN /\ c' = [c EXCEPT ![s].pc = "final_check"]
            /\ UNCHANGED <<store, state, attestationStatus, toast>>
     ELSE IF c[s].attempts + 1 < SWITCH_ATTEMPTS
       THEN /\ c' = [c EXCEPT ![s].attempts = c[s].attempts + 1]
            /\ UNCHANGED <<store, state, attestationStatus, toast>>
     ELSE ClaimCatch(s, "Failed to switch network")
  /\ UNCHANGED <<chainVars, walletChain, nextHash, calls, address, refs, autoClaimTimer,
                 otherThanClaim>>

\* verify the chain once more (useBridgeCCTP.ts:1422-1433)
ClaimFinalCheck(s) ==
  /\ c[s].pc = "final_check"
  /\ IF walletChain # c[s].dest
       THEN ClaimCatch(s, "Network not switched: current, expected")
       ELSE /\ c' = [c EXCEPT ![s].pc = "mint_send"]
            /\ UNCHANGED <<store, state, attestationStatus, toast>>
  /\ UNCHANGED <<chainVars, walletChain, nextHash, calls, address, refs, autoClaimTimer,
                 otherThanClaim>>

\* step 4: receiveMessage on the destination (useBridgeCCTP.ts:1460-1467)
ClaimMintSend(s) ==
  /\ c[s].pc = "mint_send"
  /\ \/ /\ CanSubmitMint(c[s].rec.txHash, c[s].dest)
        /\ mintTxs' = [mintTxs EXCEPT ![c[s].rec.txHash] = @ + 1]
        /\ c' = [c EXCEPT ![s].pc = "mint_wait"]
        /\ UNCHANGED <<store, state, attestationStatus, toast>>
     \/ /\ \E msg \in MintSendErrors(c[s].rec.txHash, c[s].dest) : ClaimCatch(s, msg)
        /\ UNCHANGED mintTxs
  /\ UNCHANGED <<burn, burnFrom, att, minted, walletChain, nextHash, calls, address,
                 refs, autoClaimTimer, otherThanClaim>>

\* wait for the receipt; its status is not read (useBridgeCCTP.ts:1472-1495)
ClaimMintReceipt(s) ==
  /\ c[s].pc = "mint_wait"
  /\ \/ /\ c[s].rec.txHash \notin minted
        /\ minted' = minted \cup {c[s].rec.txHash}
        /\ ClaimSuccess(s)
     \/ /\ UNCHANGED minted
        /\ ClaimSuccess(s)
     \/ /\ \E lands \in BOOLEAN :
             minted' = IF lands THEN minted \cup {c[s].rec.txHash} ELSE minted
        /\ ClaimCatch(s, "RPC error")
  /\ UNCHANGED <<burn, burnFrom, att, mintTxs, walletChain, nextHash, calls, address,
                 refs, autoClaimTimer, otherThanClaim>>

Claim(s) ==
  \/ ClaimFetch(s) \/ ClaimSwitch(s) \/ ClaimVerify(s) \/ ClaimFinalCheck(s)
  \/ ClaimMintSend(s) \/ ClaimMintReceipt(s)

(* ------------------------------------------- useBridgeCCTP: the reconciler *)
\* the effect on [address]: load the stored record and start verifyAndLoad
\* (useBridgeCCTP.ts:235-242, 311)
reconcilerStart(a) ==
  IF loadPendingBurn(store, a) # Null
    THEN [pc |-> "verify", saved |-> loadPendingBurn(store, a), addr |-> a, chain |-> walletChain]
    ELSE RIdle

\* the amount the attestation service decodes from the burn message
apiAmount == "5"

\* a reconciler that takes the amount from the attestation data alone, whatever
\* the record holds
backfilledAmountFromApiOnly(saved, decoded) ==
  IF decoded THEN apiAmount ELSE "0"

\* "get amount from API if missing" (useBridgeCCTP.ts:257-264)
backfilledAmount(saved, decoded) ==
  IF saved.amount = "0" /\ decoded THEN apiAmount ELSE saved.amount

\* a reconciler that takes the presence of a proof for a finished mint, the way
\* the relay check of bridge() does (useBridgeCCTP.ts:990-1014)
verifyAndLoadTrustsProof(resp, decoded) ==
  IF hasMessages(resp) /\ attestationUsable(resp)
    THEN /\ store' = savePendingBurn(store, r.addr, Null)
         /\ state' = [state EXCEPT !.pendingBurn = Null, !.mintConfirmed = TRUE]
         /\ attestationStatus' = "complete"
         /\ toast' = "success:Bridge completed!"
         /\ UNCHANGED autoClaimTimer
    ELSE /\ state' = [state EXCEPT !.pendingBurn = r.saved]
         /\ attestationStatus' = "pending_mint"
         /\ UNCHANGED <<store, autoClaimTimer, toast>>

\* verifyAndLoad after its fetch answered resp (useBridgeCCTP.ts:243-310)
verifyAndLoadOn(resp, decoded) ==
  IF resp.kind = "throw"
    THEN /\ state' = [state EXCEPT !.pendingBurn = r.saved]
         /\ attestationStatus' = "pending_mint"
         /\ UNCHANGED <<store, autoClaimTimer, toast>>
  ELSE IF hasMessages(resp)
    THEN LET updatedPendingBurn ==
               [r.saved EXCEPT !.amount = backfilledAmount(r.saved, decoded)] IN
         /\ IF ~attestationUsable(resp)
              THEN /\ attestationStatus' = "pending"
                   /\ toast' = "info:Bridge in progress..."
                   /\ UNCHANGED autoClaimTimer
              ELSE /\ attestationStatus' = "pending_mint"
                   /\ IF r.chain = "arcTestnet"
                        THEN /\ autoClaimTimer' = TRUE
                             /\ toast' = "info:Auto-claiming bridged USDC..."
                        ELSE /\ toast' = "info:You have unclaimed USDC!"
                             /\ UNCHANGED autoClaimTimer
         /\ store' = savePendingBurn(store, r.addr, updatedPendingBurn)
         /\ state' = [state EXCEPT !.pendingBurn = updatedPendingBurn]
  ELSE /\ store' = savePendingBurn(store, r.addr, Null)
       /\ state' = [state EXCEPT !.pendingBurn = Null]
       /\ UNCHANGED <<attestationStatus, autoClaimTimer, toast>>

\* the reconciler: fetch the attestation of the stored record, then act on it
VerifyAndLoad ==
  /\ r.pc = "verify"
  /\ \E resp \in FetchAttestation(r.saved.fromNetwork, r.saved.txHash), decoded \in BOOLEAN :
       verifyAndLoadOn(resp, decoded)
  /\ r' = RIdle
  /\ UNCHANGED <<chainVars, walletChain, nextHash, calls, address, refs, b, c, x, w, sol, contract>>

(* ------------------------------------ useBridgeCCTP: restorePendingBurn *)
\* restorePendingBurn(burnTxHash): the two tests the hook makes on the text
\* before it asks the attestation service (useBridgeCCTP.ts:1610-1617)
restoreValidation(burnTxHash) ==
  IF burnTxHash = "" \/ ~Text(burnTxHash).startsWith0x
    THEN "Invalid transaction hash format"
  ELSE IF Text(burnTxHash).length # HASH_LENGTH
    THEN "Transaction hash should be 66 characters"
  ELSE "ok"

RestorePendingBurn(burnTxHash, fromNetwork) ==
  /\ x.pc = "idle"
  /\ calls < MaxCalls
  /\ calls' = calls + 1
  /\ IF restoreValidation(burnTxHash) = "ok"
       THEN /\ x' = [pc |-> "fetch1", hash |-> burnTxHash, addr |-> address,
                       fromNetwork |-> fromNetwork]
            /\ UNCHANGED toast
       ELSE /\ x' = XIdle
            /\ toast' = "restore:" \o restoreValidation(burnTxHash)
  /\ UNCHANGED <<store, chainVars, walletChain, nextHash, address, state,
                 attestationStatus, refs, b, c, r, autoClaimTimer, w, sol, contract>>

\* the source-domain hypothesis of the query in progress, Sepolia first
\* (useBridgeCCTP.ts:1622-1625)
restoreHypothesis == IF x.pc = "fetch1" THEN "ethereumSepolia" ELSE "arcTestnet"

\* a restore that believes its caller: when neither hypothesis has a message it
\* records the burn with the direction it was called with
restoreOnTrustsCaller(resp, decoded) ==
  IF resp.kind # "throw" /\ hasMessages(resp)
    THEN IF ~attestationUsable(resp)
           THEN /\ x' = XIdle
                /\ toast' = "restore:Attestation is still being processed"
                /\ UNCHANGED <<store, state, attestationStatus>>
           ELSE LET pendingBurn == PendingBurn(x.hash, restoreHypothesis,
                                               OtherNetwork(restoreHypothesis),
                                               IF decoded THEN apiAmount ELSE "0") IN
                /\ store' = savePendingBurn(store, x.addr, pendingBurn)
                /\ state' = [state EXCEPT !.pendingBurn = pendingBurn]
                /\ attestationStatus' = "pending_mint"
                /\ toast' = "restore:Found USDC. Click Claim to receive!"
                /\ x' = XIdle
  ELSE IF x.pc = "fetch1"
    THEN /\ x' = [x EXCEPT !.pc = "fetch2"]
         /\ UNCHANGED <<store, state, attestationStatus, toast>>
  ELSE LET pendingBurn == PendingBurn(x.hash, x.fromNetwork,
                                      OtherNetwork(x.fromNetwork), "0") IN
       /\ store' = savePendingBurn(store, x.addr, pendingBurn)
       /\ state' = [state EXCEPT !.pendingBurn = pendingBurn]
       /\ attestationStatus' = "pending_mint"
       /\ toast' = "restore:Found USDC. Click Claim to receive!"
       /\ x' = XIdle

\* a restore that takes the direction from its fromNetwork argument instead of
\* the hypothesis that was answered
restoreOnCallerDirection(resp, decoded) ==
  IF resp.kind # "throw" /\ hasMessages(resp)
    THEN IF ~attestationUsable(resp)
           THEN /\ x' = XIdle
                /\ toast' = "restore:Attestation is still being processed"
                /\ UNCHANGED <<store, state, attestationStatus>>
           ELSE LET pendingBurn == PendingBurn(x.hash, x.fromNetwork,
                                               OtherNetwork(x.fromNetwork),
                                               IF decoded THEN apiAmount ELSE "0") IN
                /\ store' = savePendingBurn(store, x.addr, pendingBurn)
                /\ state' = [state EXCEPT !.pendingBurn = pendingBurn]
                /\ attestationStatus' = "pending_mint"
                /\ toast' = "restore:Found USDC. Click Claim to receive!"
                /\ x' = XIdle
  ELSE IF x.pc = "fetch1"
    THEN /\ x' = [x EXCEPT !.pc = "fetch2"]
         /\ UNCHANGED <<store, state, attestationStatus, toast>>
  ELSE /\ x' = XIdle
       /\ toast' = "restore:No CCTP burn found for this transaction"
       /\ UNCHANGED <<store, state, attestationStatus>>

\* what the hook does with the answer to one query (useBridgeCCTP.ts:1631-1698);
\* the fromNetwork, toNetwork and amount arguments of the call are not read
restoreOn(resp, decoded) ==
  LET detectedFrom == restoreHypothesis
      detectedTo   == OtherNetwork(restoreHypothesis) IN
  IF resp.kind # "throw" /\ hasMessages(resp)
    THEN IF ~attestationUsable(resp)
           THEN /\ x' = XIdle
                /\ toast' = "restore:Attestation is still being processed"
                /\ UNCHANGED <<store, state, attestationStatus>>
           ELSE LET pendingBurn == PendingBurn(x.hash, detectedFrom, detectedTo,
                                               IF decoded THEN apiAmount ELSE "0") IN
                /\ store' = savePendingBurn(store, x.addr, pendingBurn)
                /\ state' = [state EXCEPT !.pendingBurn = pendingBurn]
                /\ attestationStatus' = "pending_mint"
                /\ toast' = "restore:Found USDC. Click Claim to receive!"
                /\ x' = XIdle
  ELSE IF x.pc = "fetch1"
    THEN /\ x' = [x EXCEPT !.pc = "fetch2"]
         /\ UNCHANGED <<store, state, attestationStatus, toast>>
  ELSE /\ x' = XIdle
       /\ toast' = "restore:No CCTP burn found for this transaction"
       /\ UNCHANGED <<store, state, attestationStatus>>

\* one query of the domain loop and what follows it
RestoreFetch ==
  /\ x.pc \in {"fetch1", "fetch2"}
  /\ \E resp \in FetchAttestation(restoreHypothesis, x.hash), decoded \in BOOLEAN :
       restoreOn(resp, decoded)
  /\ UNCHANGED <<chainVars, walletChain, nextHash, calls, address, refs, b, c, r,
                 autoClaimTimer, w, sol, contract>>

(* ------------------------------ useBridgeCCTP: clearPendingBurn and reset *)
\* the Dismiss button of the pending-mint notice (useBridgeCCTP.ts:1704-1710)
ClearPendingBurn ==
  /\ attestationStatus = "pending_mint"
  /\ calls < MaxCalls
  /\ calls' = calls + 1
  /\ store' = savePendingBurn(store, address, Null)
  /\ state' = [state EXCEPT !.pendingBurn = Null]
  /\ attestationStatus' = "null"
  /\ UNCHANGED <<chainVars, walletChain, nextHash, address, refs, toast, procVars, w, sol, contract>>

\* "Bridge Again" and the network selectors of the page call reset() once the
\* bridge is complete (useBridgeCCTP.ts:1713-1734)
Reset ==
  /\ attestationStatus = "complete"
  /\ calls < MaxCalls
  /\ calls' = calls + 1
  /\ state' = InitialState
  /\ attestationStatus' = "null"
  /\ refs' = [InitialRefs EXCEPT !.mintTxHashRef = refs.mintTxHashRef]
  /\ UNCHANGED <<store, chainVars, walletChain, nextHash, address, toast, procVars, w, sol, contract>>

(* ------------------------------------------------- sessions of the page *)
\* the page is loaded again: memory is lost, localStorage is kept, the hook
\* mounts and its effect runs
Reload ==
  /\ calls < MaxCalls
  /\ calls' = calls + 1
  /\ state' = InitialState
  /\ attestationStatus' = "null"
  /\ refs' = InitialRefs
  /\ toast' = "none"
  /\ b' = BIdle
  /\ c' = [s \in Slots |-> CIdle]
  /\ x' = XIdle
  /\ autoClaimTimer' = FALSE
  /\ r' = reconcilerStart(address)
  /\ UNCHANGED <<store, chainVars, walletChain, nextHash, address, w, sol, contract>>

\* the wallet changes account: the effect on [address] runs again
AccountChanged(a) ==
  /\ calls < MaxCalls
  /\ a # address
  /\ r.pc = "idle"
  /\ calls' = calls + 1
  /\ address' = a
  /\ r' = reconcilerStart(a)
  /\ UNCHANGED <<store, chainVars, walletChain, nextHash, state, attestationStatus, refs,
                 toast, b, c, x, autoClaimTimer, w, sol, contract>>

(* ------------------------------------------------------------------ Next *)
Environment ==
  \/ \E h \in Hashes : AttestationProgress(h)
  \/ \E h \in Hashes : RelayerMints(h)
  \/ \E n \in Networks : WalletChainChanged(n)

Next ==
  \/ \E from \in Networks, amount \in Amounts : Bridge(from, amount)
  \/ BridgeDirect
  \/ BridgeKit
  \/ UserClaim
  \/ AutoClaim
  \/ \E s \in Slots : Claim(s)
  \/ VerifyAndLoad
  \/ \E h \in TxHashInputs, from \in Networks : RestorePendingBurn(h, from)
  \/ RestoreFetch
  \/ ClearPendingBurn
  \/ Reset
  \/ Reload
  \/ \E a \in Addresses : AccountChanged(a)
  \/ Environment

Spec == Init /\ [][Next]_vars

(* ------------------------------- useBridgeWrapperSepolia: bridgeToArc *)
cctpVars == <<store, address, state, attestationStatus, refs, toast, procVars, sol, contract>>

\* a return of bridgeToArc that leaves the polling guard as it finds it, the
\* way the outer catch does
WReturnKeepsGuard(st, polling) ==
  [state |-> st, isPollingRef |-> w.isPollingRef, pc |-> "idle", hash |-> "null",
   chain |-> "ethereumSepolia", attempts |-> 0, messageBytes |-> "null",
   attestation |-> "null"]

WReturn(st, polling) ==
  [state |-> st, isPollingRef |-> polling, pc |-> "idle", hash |-> "null",
   chain |-> "ethereumSepolia", attempts |-> 0, messageBytes |-> "null",
   attestation |-> "null"]

\* the outer catch of bridgeToArc (part_002:451-469)
WBridgeCatch(msg) ==
  LET errorMsg == IF includes(msg, "User rejected") \/ includes(msg, "user rejected")
                    THEN "Transaction rejected" ELSE msg
  IN w' = WReturn([w.state EXCEPT !.isBridging = FALSE, !.error = errorMsg, !.step = "idle"],
                  w.isPollingRef)

\* bridgeToArc(amount): entry up to the first await (part_002:268-297)
BridgeToArc ==
  /\ w.pc = "idle"
  /\ calls < MaxCalls
  /\ calls' = calls + 1
  /\ w' = [w EXCEPT !.state = [WState EXCEPT !.isBridging = TRUE, !.step = "approving"],
                    !.pc = IF walletChain # "ethereumSepolia" THEN "src_switch" ELSE "prepare",
                    !.chain = walletChain, !.hash = "null", !.attempts = 0,
                    !.messageBytes = "null", !.attestation = "null"]
  /\ UNCHANGED <<chainVars, walletChain, nextHash, cctpVars>>

\* switch to Sepolia (part_002:291-296)
WSourceSwitch ==
  /\ w.pc = "src_switch"
  /\ \/ \E landed \in BOOLEAN :
          /\ walletChain' = IF landed THEN "ethereumSepolia" ELSE walletChain
          /\ w' = [w EXCEPT !.pc = "prepare"]
     \/ /\ \E msg \in SwitchErrors : WBridgeCatch(msg)
        /\ UNCHANGED walletChain
  /\ UNCHANGED <<chainVars, nextHash, calls, cctpVars>>

\* fee, balance, allowance and approval (part_002:298-343)
WPrepare ==
  /\ w.pc = "prepare"
  /\ \/ w' = [w EXCEPT !.state.step = "burning", !.pc = "burn_send"]
     \/ \E msg \in WalletErrors : WBridgeCatch(msg)
  /\ UNCHANGED <<chainVars, walletChain, nextHash, calls, cctpVars>>

\* writeContract(bridgeToArc) (part_002:345-360)
WBurnSend ==
  /\ w.pc = "burn_send"
  /\ \/ /\ walletChain = "ethereumSepolia"
        /\ nextHash <= MaxBurns
        /\ LET h == HashOf(nextHash) IN
           /\ burn' = [burn EXCEPT ![h] = "sent"]
           /\ burnFrom' = [burnFrom EXCEPT ![h] = "ethereumSepolia"]
           /\ w' = [w EXCEPT !.state.burnTxHash = h, !.pc = "burn_wait", !.hash = h]
        /\ nextHash' = nextHash + 1
     \/ /\ \E msg \in WalletErrors \cup
                 (IF walletChain # "ethereumSepolia"
                    THEN {"The current chain of the wallet does not match the target chain"}
                    ELSE {}) : WBridgeCatch(msg)
        /\ UNCHANGED <<burn, burnFrom, nextHash>>
  /\ UNCHANGED <<att, minted, mintTxs, walletChain, calls, cctpVars>>

\* wait for the burn receipt, whose status is not read, then start polling
\* (part_002:362-381)
WBurnReceipt ==
  /\ w.pc = "burn_wait"
  /\ \/ \E status \in {"confirmed", "reverted"} :
          /\ burn' = [burn EXCEPT ![w.hash] = status]
          /\ LET st == [w.state EXCEPT !.step = "waiting_attestation", !.isBridging = FALSE] IN
             IF w.isPollingRef
               THEN w' = WReturn(st, w.isPollingRef)
               ELSE w' = [w EXCEPT !.state = st, !.isPollingRef = TRUE, !.pc = "poll",
                                   !.attempts = 0]
     \/ /\ UNCHANGED burn
        /\ WBridgeCatch("RPC error")
  /\ UNCHANGED <<burnFrom, att, minted, mintTxs, walletChain, nextHash, calls, cctpVars>>

\* a claim catch that gives the transfer up the way the outer catch does
WClaimCatchToIdle(msg) ==
  w' = WReturn([w.state EXCEPT !.isClaiming = FALSE, !.error = msg, !.step = "idle"], FALSE)

\* the catch around the automatic claim (part_002:408-449)
WClaimCatch(msg) ==
  IF includes(msg, "already received") \/ includes(msg, "Nonce already used")
    THEN w' = WReturn([w.state EXCEPT !.isClaiming = FALSE, !.step = "complete"], FALSE)
  ELSE IF includes(msg, "User rejected") \/ includes(msg, "user rejected")
    THEN w' = WReturn([w.state EXCEPT !.isClaiming = FALSE, !.step = "waiting_attestation",
                                      !.error = "Claim transaction rejected"], FALSE)
  ELSE w' = WReturn([w.state EXCEPT !.isClaiming = FALSE, !.step = "waiting_attestation",
                                    !.error = msg], FALSE)

\* one turn of pollForAttestation and what bridgeToArc does with its result
\* (part_002:197-234, 383-399)
WPoll ==
  /\ w.pc = "poll"
  /\ \E resp \in FetchAttestation("ethereumSepolia", w.hash) :
       IF resp.kind # "throw" /\ hasMessages(resp) /\ attestationUsable(resp)
         THEN w' = [w EXCEPT !.state.isClaiming = TRUE, !.state.step = "claiming",
                             !.pc = IF w.chain # "arcTestnet" THEN "claim_switch" ELSE "claim_send",
                             !.messageBytes = resp.message,
                             !.attestation = resp.attestation]
       ELSE IF w.attempts + 1 < ATTESTATION_MAX_ATTEMPTS
         THEN w' = [w EXCEPT !.attempts = w.attempts + 1]
       ELSE w' = WReturn([w.state EXCEPT !.error = "Attestation timeout after 5 minutes",
                                         !.step = "waiting_attestation"], FALSE)
  /\ UNCHANGED <<chainVars, walletChain, nextHash, calls, cctpVars>>

\* executeClaimOnArc: switch to Arc, no verification (part_002:243-249)
WClaimSwitch ==
  /\ w.pc = "claim_switch"
  /\ \/ \E landed \in BOOLEAN :
          /\ walletChain' = IF landed THEN "arcTestnet" ELSE walletChain
          /\ w' = [w EXCEPT !.pc = "claim_send"]
     \/ /\ \E msg \in SwitchErrors : WClaimCatch(msg)
        /\ UNCHANGED walletChain
  /\ UNCHANGED <<chainVars, nextHash, calls, cctpVars>>

\* executeClaimOnArc: receiveMessage (part_002:254-262)
\* writeContract is called with whatever pollForAttestation returned; when the
\* message bytes are missing the source does not say what the wallet client
\* does with them: it may refuse the arguments (one of the errors below) or
\* send a transaction the contract then reverts.
WClaimSend ==
  /\ w.pc = "claim_send"
  /\ \/ /\ CanSubmitMint(w.hash, "arcTestnet")
        /\ mintTxs' = [mintTxs EXCEPT ![w.hash] = @ + 1]
        /\ w' = [w EXCEPT !.pc = "claim_wait"]
     \/ /\ \E msg \in MintSendErrors(w.hash, "arcTestnet") : WClaimCatch(msg)
        /\ UNCHANGED mintTxs
  /\ UNCHANGED <<burn, burnFrom, att, minted, walletChain, nextHash, calls, cctpVars>>

\* executeClaimOnArc: wait for the receipt, whose status is not read
\* (part_002:263-265, 398-407)
WClaimReceipt ==
  /\ w.pc = "claim_wait"
  /\ \/ /\ \/ /\ w.hash \notin minted
              /\ w.messageBytes # ""
              /\ minted' = minted \cup {w.hash}
           \/ UNCHANGED minted
        /\ w' = WReturn([w.state EXCEPT !.isClaiming = FALSE, !.claimTxHash = "0xmint",
                                        !.step = "complete"], FALSE)
     \/ /\ \E lands \in BOOLEAN :
             minted' = IF lands /\ w.messageBytes # "" THEN minted \cup {w.hash} ELSE minted
        /\ WClaimCatch("RPC error")
  /\ UNCHANGED <<burn, burnFrom, att, mintTxs, walletChain, nextHash, calls, cctpVars>>

\* reset() of the wrapper hook (part_002:543-557)
WReset ==
  /\ calls < MaxCalls
  /\ calls' = calls + 1
  /\ w' = [w EXCEPT !.state = WState, !.isPollingRef = FALSE]
  /\ UNCHANGED <<chainVars, walletChain, nextHash, cctpVars>>

NextWrapper ==
  \/ BridgeToArc \/ WSourceSwitch \/ WPrepare \/ WBurnSend \/ WBurnReceipt \/ WPoll
  \/ WClaimSwitch \/ WClaimSend \/ WClaimReceipt \/ WReset
  \/ Environment

SpecWrapper == Init /\ [][NextWrapper]_vars

(* ------------------------------------------------------ useBridgeSolana *)
\* bridgeToSolana and bridgeFromSolana hand the whole transfer to the Bridge Kit
\* and follow it through onProgress; every state update is a functional
\* setState(prev => ...), applied to the state at the time it runs.
nonSolanaVars == <<store, chainVars, walletChain, nextHash, address, state, attestationStatus,
                   refs, toast, procVars, w, contract>>

SolEnded == {"idle", "resolved", "rejected"}

\* the entry of bridgeToSolana / bridgeFromSolana up to its first await
\* (useBridgeSolana.ts:122-146, 360-384); the page offers the button while
\* no bridge is running
SolanaBridge(k, dir) ==
  /\ sol.call[k].pc \in SolEnded
  /\ ~sol.state.isBridging
  /\ calls < MaxCalls
  /\ calls' = calls + 1
  /\ \E connected \in BOOLEAN :
       IF ~connected
         THEN sol' = [sol EXCEPT !.state.error = "Please connect your wallet"]
         ELSE sol' = [sol EXCEPT
                        !.state = [@ EXCEPT !.isBridging = TRUE, !.error = "null",
                                     !.transactions = SolTransactions,
                                     !.attestationStatus =
                                        IF dir = "toSolana" THEN "approval" ELSE "burn",
                                     !.attestationProgress = 0],
                        !.call[k] = [pc |-> "adapters", dir |-> dir, mintConfirmed |-> FALSE]]
  /\ UNCHANGED nonSolanaVars

\* providers and adapters are created; the kit starts (useBridgeSolana.ts:148-174,
\* 386-412)
SolanaAdapters(k) ==
  /\ sol.call[k].pc = "adapters"
  /\ sol' = [sol EXCEPT !.call[k].pc = "approval"]
  /\ UNCHANGED <<calls, nonSolanaVars>>

\* the progress events the kit can report next
SolNextEvents(pc) ==
  CASE pc = "approval"      -> {"APPROVAL_STARTED", "BURN_STARTED"}
    [] pc = "approval_wait" -> {"APPROVAL_CONFIRMED"}
    [] pc = "burn"          -> {"BURN_STARTED"}
    [] pc = "burn_wait"     -> {"BURN_CONFIRMED"}
    [] pc = "att"           -> {"ATTESTATION_PENDING"}
    [] pc = "att_wait"      -> {"ATTESTATION_COMPLETE"}
    [] pc = "mint"          -> {"MINT_STARTED"}
    [] pc = "mint_wait"     -> {"MINT_CONFIRMED"}
    [] OTHER                -> {}

SolStageAfter(eventType) ==
  CASE eventType = "APPROVAL_STARTED"     -> "approval_wait"
    [] eventType = "APPROVAL_CONFIRMED"   -> "burn"
    [] eventType = "BURN_STARTED"         -> "burn_wait"
    [] eventType = "BURN_CONFIRMED"       -> "att"
    [] eventType = "ATTESTATION_PENDING"  -> "att_wait"
    [] eventType = "ATTESTATION_COMPLETE" -> "mint"
    [] eventType = "MINT_STARTED"         -> "mint_wait"
    [] OTHER                              -> "done"

\* onProgress of bridgeToSolana (useBridgeSolana.ts:179-251) and of
\* bridgeFromSolana (417-485) applied to the state prev; txHash tells whether
\* the event carries a transaction hash
onProgress(prev, dir, eventType, txHash) ==
  LET to == dir = "toSolana" IN
  CASE eventType = "APPROVAL_STARTED" ->
         IF to THEN [prev EXCEPT !.attestationStatus = "approval", !.attestationProgress = 10]
               ELSE prev
    [] eventType = "APPROVAL_CONFIRMED" ->
         IF to THEN [prev EXCEPT !.attestationProgress = 25] ELSE prev
    [] eventType = "BURN_STARTED" ->
         [prev EXCEPT !.attestationStatus = "burn",
                      !.attestationProgress = IF to THEN 30 ELSE 20,
                      !.transactions.Burn = IF txHash THEN "pending" ELSE @]
    [] eventType = "BURN_CONFIRMED" ->
         [prev EXCEPT !.attestationProgress = IF to THEN 50 ELSE 40,
                      !.transactions.Burn = IF @ = "none" THEN @ ELSE "success"]
    [] eventType = "ATTESTATION_PENDING" ->
         [prev EXCEPT !.attestationStatus = "attestation_pending",
                      !.attestationProgress = IF to THEN 60 ELSE 50]
    [] eventType = "ATTESTATION_COMPLETE" ->
         [prev EXCEPT !.attestationProgress = IF to THEN 80 ELSE 70]
    [] eventType = "MINT_STARTED" ->
         [prev EXCEPT !.attestationStatus = "mint",
                      !.attestationProgress = IF to THEN 85 ELSE 80,
                      !.transactions.Mint = IF txHash THEN "pending" ELSE @]
    [] eventType = "MINT_CONFIRMED" ->
         [prev EXCEPT !.isBridging = FALSE, !.attestationStatus = "complete",
                      !.attestationProgress = 100,
                      !.transactions.Mint = IF @ = "none" THEN @ ELSE "success"]
    [] OTHER -> prev

\* the kit reports its next progress event
SolanaProgress(k) ==
  /\ \E eventType \in SolNextEvents(sol.call[k].pc), txHash \in BOOLEAN :
       sol' = [sol EXCEPT
                 !.state = onProgress(@, sol.call[k].dir, eventType, txHash),
                 !.call[k].pc = SolStageAfter(eventType),
                 !.call[k].mintConfirmed = (eventType = "MINT_CONFIRMED")]
  /\ UNCHANGED <<calls, nonSolanaVars>>

\* a continuation that marks the transfer complete whatever the state is
solResolvedForcesComplete(prev) ==
  [prev EXCEPT !.isBridging = FALSE, !.attestationStatus = "complete",
               !.attestationProgress = 100, !.result = "result"]

\* the setState after `await bridgeKit.bridge(...)` resolved
\* (useBridgeSolana.ts:274-297, 504-527)
solResolved(prev) ==
  IF prev.attestationStatus = "complete"
    THEN prev
    ELSE [prev EXCEPT !.isBridging = FALSE, !.attestationStatus = "complete",
                      !.attestationProgress = 100, !.result = "result"]

\* the kit's promise resolves: after MINT_CONFIRMED, or without that event
\* ("MINT_CONFIRMED event may not fire for Solana destination")
SolanaResolve(k) ==
  /\ sol.call[k].pc \in {"mint_wait", "done"}
  /\ sol' = [sol EXCEPT !.state = solResolved(@), !.call[k].pc = "resolved"]
  /\ UNCHANGED <<calls, nonSolanaVars>>

\* useBridgeSolana.ts:303-310, 533-540
isUserRejection(msg) == includes(msg, "User rejected")

\* the setState of the catch (useBridgeSolana.ts:312-357, 542-586)
solCaught(prev, msg) ==
  IF prev.attestationStatus = "complete"
    THEN prev
  ELSE IF prev.attestationProgress >= 80 \/ prev.attestationStatus = "mint"
    THEN [prev EXCEPT !.isBridging = FALSE, !.attestationStatus = "complete",
                      !.attestationProgress = 100]
  ELSE IF prev.transactions.Burn # "none"
    THEN [prev EXCEPT !.isBridging = FALSE,
                      !.error = IF isUserRejection(msg)
                                  THEN "Mint cancelled. Your USDC was burned"
                                  ELSE "Bridge failed after burn",
                      !.attestationStatus = "pending_mint",
                      !.attestationProgress = 70]
  ELSE [prev EXCEPT !.isBridging = FALSE,
                    !.error = IF isUserRejection(msg) THEN "Transaction cancelled by user"
                              ELSE msg,
                    !.attestationStatus = "idle",
                    !.attestationProgress = 0]

\* an await of the call rejects: a provider or adapter cannot be made, or the
\* kit gives up in any stage, also after it reported MINT_CONFIRMED
SolanaReject(k) ==
  /\ sol.call[k].pc \notin SolEnded
  /\ \E msg \in {"User rejected the request", "RPC error"} :
       sol' = [sol EXCEPT !.state = solCaught(@, msg), !.call[k].pc = "rejected"]
  /\ UNCHANGED <<calls, nonSolanaVars>>

\* reset() (useBridgeSolana.ts:590-592), called by the page once a bridge is
\* complete (part_004:318-350)
SolanaReset ==
  /\ sol.state.attestationStatus = "complete"
  /\ calls < MaxCalls
  /\ calls' = calls + 1
  /\ sol' = [sol EXCEPT !.state = initialState]
  /\ UNCHANGED nonSolanaVars

NextSolana ==
  \/ \E k \in SolCalls, dir \in SolDirections : SolanaBridge(k, dir)
  \/ \E k \in SolCalls : SolanaAdapters(k)
  \/ \E k \in SolCalls : SolanaProgress(k)
  \/ \E k \in SolCalls : SolanaResolve(k)
  \/ \E k \in SolCalls : SolanaReject(k)
  \/ SolanaReset

SpecSolana == Init /\ [][NextSolana]_vars

(* --------------------------------------------------- BridgeWrapper.sol *)
\* The fee contract on Arc: its constructor, the two bridge entry points, the
\* owner's setFee and withdrawFees, and the calculateFee view.
nonContractVars == <<store, chainVars, walletChain, nextHash, calls, address, state,
                     attestationStatus, refs, toast, procVars, w, sol>>

\* the values callers pass for a fee in basis points and for an amount
FeeInputs == {0, 5, MAX_FEE_BP, MAX_FEE_BP + 1, 20000}
AmountInputs == {0, 1, 10, 65, 66, 2000, UintMax}
Senders == {"owner", "other"}

\* a fee check that lets every value through
feeAllowedAlways(feeBasisPoints) == TRUE

\* require(_feeBasisPoints <= MAX_FEE_BP, "Fee too high") (BridgeWrapper.sol:67, 190)
feeAllowed(feeBasisPoints) == feeBasisPoints <= MAX_FEE_BP

\* fee = (amount * feeBasisPoints) / 10000; bridgeAmount = amount - fee
\* (BridgeWrapper.sol:90-91, 146-147, 218-219), in checked uint256 arithmetic
calculateFee(fn, amount, feeBasisPoints) ==
  LET product == amount * feeBasisPoints
      fee     == product \div 10000 IN
  IF product > UintMax
    THEN [fn |-> fn, outcome |-> "overflow", amount |-> amount, fee |-> 0, bridgeAmount |-> 0]
  ELSE IF fee > amount
    THEN [fn |-> fn, outcome |-> "underflow", amount |-> amount, fee |-> fee, bridgeAmount |-> 0]
  ELSE [fn |-> fn, outcome |-> "ok", amount |-> amount, fee |-> fee,
        bridgeAmount |-> amount - fee]

\* a call that fails a require
Reverted(fn, amount) ==
  [fn |-> fn, outcome |-> "require", amount |-> amount, fee |-> 0, bridgeAmount |-> 0]

\* constructor(_usdc, _tokenMessenger, _feeBasisPoints) (BridgeWrapper.sol:60-72)
Constructor(feeBasisPoints) ==
  /\ ~contract.deployed
  /\ contract.ops < MaxContractCalls
  /\ IF feeAllowed(feeBasisPoints)
       THEN contract' = [contract EXCEPT !.deployed = TRUE, !.feeBasisPoints = feeBasisPoints,
                                         !.ops = @ + 1,
                                         !.last = [NoCall EXCEPT !.fn = "constructor",
                                                                 !.outcome = "ok"]]
       ELSE contract' = [contract EXCEPT !.ops = @ + 1, !.last = Reverted("constructor", 0)]
  /\ UNCHANGED nonContractVars

\* the body shared by bridgeToSepolia and bridge (BridgeWrapper.sol:82-128,
\* 137-181); the token transfer and depositForBurn succeed
ContractBridge(fn, amount) ==
  /\ contract.deployed
  /\ contract.ops < MaxContractCalls
  /\ LET res == calculateFee(fn, amount, contract.feeBasisPoints) IN
     IF amount = 0
       THEN contract' = [contract EXCEPT !.ops = @ + 1, !.last = Reverted(fn, amount)]
     ELSE IF res.outcome # "ok" \/ contract.totalFeesCollected + res.fee > UintMax
       THEN contract' = [contract EXCEPT !.ops = @ + 1,
                           !.last = IF res.outcome # "ok" THEN res
                                    ELSE [res EXCEPT !.outcome = "overflow"]]
     ELSE contract' = [contract EXCEPT !.ops = @ + 1, !.last = res,
                         !.totalFeesCollected = @ + res.fee,
                         !.balance = @ + res.fee]
  /\ UNCHANGED nonContractVars

\* setFee(newFeeBasisPoints) external onlyOwner (BridgeWrapper.sol:189-194)
SetFee(sender, newFeeBasisPoints) ==
  /\ contract.deployed
  /\ contract.ops < MaxContractCalls
  /\ IF sender = "owner" /\ feeAllowed(newFeeBasisPoints)
       THEN contract' = [contract EXCEPT !.feeBasisPoints = newFeeBasisPoints, !.ops = @ + 1,
                                         !.last = [NoCall EXCEPT !.fn = "setFee",
                                                                 !.outcome = "ok"]]
       ELSE contract' = [contract EXCEPT !.ops = @ + 1, !.last = Reverted("setFee", 0)]
  /\ UNCHANGED nonContractVars

\* withdrawFees(to) external onlyOwner (BridgeWrapper.sol:200-207)
WithdrawFees(sender) ==
  /\ contract.deployed
  /\ contract.ops < MaxContractCalls
  /\ IF sender = "owner" /\ contract.balance > 0
       THEN contract' = [contract EXCEPT !.balance = 0, !.ops = @ + 1,
                                         !.last = [NoCall EXCEPT !.fn = "withdrawFees",
                                                                 !.outcome = "ok"]]
       ELSE contract' = [contract EXCEPT !.ops = @ + 1, !.last = Reverted("withdrawFees", 0)]
  /\ UNCHANGED nonContractVars

\* a call of the calculateFee view (BridgeWrapper.sol:217-220)
CalculateFee(amount) ==
  /\ contract.deployed
  /\ contract.ops < MaxContractCalls
  /\ contract' = [contract EXCEPT !.ops = @ + 1,
                    !.last = calculateFee("calculateFee", amount, contract.feeBasisPoints)]
  /\ UNCHANGED nonContractVars

NextContract ==
  \/ \E fee \in FeeInputs : Constructor(fee)
  \/ \E fn \in {"bridgeToSepolia", "bridge"}, amount \in AmountInputs : ContractBridge(fn, amount)
  \/ \E sender \in Senders, fee \in FeeInputs : SetFee(sender, fee)
  \/ \E sender \in Senders : WithdrawFees(sender)
  \/ \E amount \in AmountInputs : CalculateFee(amount)

SpecContract == Init /\ [][NextContract]_vars

(* ================================================================ claims *)
\* the store holds, for address a, a record of burn h
HasRecord(a, h) == store[a] # Null /\ store[a].txHash = h

\* C1 (P2, durable after confirmation): the step of bridge() in which its burn
\* is confirmed on the source chain leaves a record carrying that burn's hash
\* in the store for the initiator.
P2_DurableAfterConfirmation ==
  [][ \A h \in Hashes :
        (b.hash = h /\ burn[h] # "confirmed" /\ burn'[h] = "confirmed")
          => (store'[b.addr] # Null /\ store'[b.addr].txHash = h) ]_vars

\* C2 (P1, no premature persistence): a burn whose receipt says it did not
\* succeed has no record in the store, for any address.
P1_NoPrematurePersistence ==
  \A h \in Hashes, a \in Addresses : burn[h] = "reverted" => ~HasRecord(a, h)

\* C3: a record leaves the store only in a step that dismisses it
\* (clearPendingBurn) or whose burn the destination has minted.
DeletedOnlyByMintOrDismissal ==
  [][ \A a \in Addresses :
        (store[a] # Null /\ store'[a] # store[a] /\
           (store'[a] = Null \/ store'[a].txHash # store[a].txHash))
          => (ClearPendingBurn \/ store[a].txHash \in minted') ]_vars

\* C4 (P4, timeout is non-destructive): when the poll bound of bridge() or of
\* bridgeToArc() elapses without proof for a confirmed burn, the store holds
\* the burn's record for the initiator and the hook reports the pending manual
\* mint, not an error.
P4_TimeoutNonDestructive ==
  [][ /\ (BridgePoll /\ b'.pc = "idle" /\ burn[b.hash] = "confirmed")
           => /\ store'[b.addr] # Null /\ store'[b.addr].txHash = b.hash
              /\ attestationStatus' = "pending_mint"
              /\ state'.error = state.error
      /\ (WPoll /\ w'.pc = "idle" /\ burn[w.hash] = "confirmed")
           => /\ store'[address] # Null /\ store'[address].txHash = w.hash
              /\ w'.state.error = "null"
              /\ w'.state.step = "waiting_attestation" ]_vars

\* C5 (P5, reconciliation never double-trusts attestation): whenever
\* verifyAndLoad acts on an answer that carries the proof of its stored
\* record, it leaves the phase at pending_mint with the record kept in the
\* store and in state.pendingBurn, and it either schedules the automatic
\* claim or tells the user there is USDC to claim; the phase is not complete.
P5_ReconcilerNeverTrustsProof ==
  [][ (r.pc = "verify") =>
        \A resp \in FetchAttestation(r.saved.fromNetwork, r.saved.txHash), decoded \in BOOLEAN :
          (attestationUsable(resp) /\ VerifyAndLoad /\ verifyAndLoadOn(resp, decoded))
            => /\ attestationStatus' = "pending_mint"
               /\ store'[r.addr] # Null /\ store'[r.addr].txHash = r.saved.txHash
               /\ state'.pendingBurn # Null /\ state'.pendingBurn.txHash = r.saved.txHash
               /\ state'.mintConfirmed = state.mintConfirmed
               /\ \/ autoClaimTimer' /\ toast' = "info:Auto-claiming bridged USDC..."
                  \/ toast' = "info:You have unclaimed USDC!" ]_vars

\* C5 witness: the reconciler has found the proof of a stored record whose
\* burn nobody has minted yet, and has scheduled the automatic claim.
P5_ReconcilerFoundProof ==
  /\ r.pc = "idle"
  /\ autoClaimTimer
  /\ toast = "info:Auto-claiming bridged USDC..."
  /\ attestationStatus = "pending_mint"
  /\ \E h \in Hashes : HasRecord(address, h) /\ att[h] = "ready" /\ h \notin minted

\* C6: a step of bridge() that reports complete is a step after which the
\* destination has minted the burn of that bridge() run.
CompleteOnlyAfterMint ==
  [][ (b.pc # "idle" /\ attestationStatus # "complete" /\ attestationStatus' = "complete"
         /\ b' = BIdle /\ state'.mintConfirmed)
        => (b.hash # "null" /\ b.hash \in minted') ]_vars

\* C7 (P3, idempotent claim): a call of claimPendingBridge that follows a
\* successful claim reports success.
P3_IdempotentClaim ==
  [][ (AutoClaim /\ toast = "success:USDC claimed successfully!"
         /\ attestationStatus = "complete" /\ state.mintConfirmed)
        => toast' \in {"success:USDC claimed successfully!",
                       "success:Transfer already completed!"} ]_vars

\* C8 (Scenario B): when the destination answers a submitted mint with the
\* nonce-already-used signal, whatever else the error says, bridge() and
\* claimPendingBridge() clear the record, report complete and surface no error.
NonceAlreadyUsedIsSuccess ==
  [][ \A msg \in NonceErrors :
        /\ (b.pc = "mint_send" /\ b.hash \in minted /\ walletChain = "arcTestnet"
              /\ BridgeMintSend /\ MintCatch(msg))
             => /\ store'[b.addr] = Null
                /\ attestationStatus' = "complete"
                /\ state'.error = "null"
        /\ \A s \in Slots :
             (c[s].pc = "mint_send" /\ c[s].rec.txHash \in minted /\ walletChain = c[s].dest
                /\ ClaimMintSend(s) /\ ClaimCatch(s, msg))
               => /\ store'[c[s].addr] = Null
                  /\ attestationStatus' = "complete"
                  /\ state'.error = "null" ]_vars

\* C9 (Scenario D): bridge() called while the store holds a record for the
\* caller's address changes neither the store nor starts a run.
SecondBridgeRejected ==
  [][ \A from \in Networks, amount \in Amounts :
        (Bridge(from, amount) /\ store[address] # Null)
          => (store' = store /\ b' = b) ]_vars

\* the handlers that have a mint transaction for burn h submitted and unconfirmed
MintsInFlight(h) ==
  { s \in Slots : c[s].pc = "mint_wait" /\ c[s].rec.txHash = h }
    \cup (IF b.pc \in {"mint_wait", "sdk_mint_wait"} /\ b.hash = h THEN {"bridge"} ELSE {})

\* C10 (single-flight guard): for one burn hash, at most one handler has a
\* mint transaction submitted and unconfirmed.
SingleFlight ==
  \A h \in Hashes : Cardinality(MintsInFlight(h)) <= 1

\* C11: the store is namespaced by address: a step that writes or deletes the
\* record of one address leaves the stored record of every other address as
\* it was.
InitiatorsIndependent ==
  [][ \A a1 \in Addresses, a2 \in Addresses :
        (a1 # a2 /\ store'[a1] # store[a1]) => store'[a2] = store[a2] ]_vars

\* C12 (strict sequential pipeline): a handler polls the attestation of a burn
\* only when that burn is confirmed on the source chain, and a mint
\* transaction has been submitted for a burn only if the burn is confirmed and
\* its attestation is ready; so a burn whose attestation never arrives has no
\* mint transaction.
PipelineOrder ==
  /\ b.pc = "poll" => burn[b.hash] = "confirmed"
  /\ w.pc = "poll" => burn[w.hash] = "confirmed"
  /\ \A h \in Hashes : mintTxs[h] > 0 => (burn[h] = "confirmed" /\ att[h] = "ready")

\* C13 (verified network switch): a mint transaction is submitted only while
\* the wallet reports the destination chain of its burn, and a handler goes
\* on to submit the mint only from a step in which it saw the wallet on the
\* destination chain, never from the switch request alone.
VerifiedSwitch ==
  [][ /\ \A h \in Hashes :
           mintTxs'[h] # mintTxs[h] => walletChain = OtherNetwork(burnFrom[h])
      /\ (b.pc # "mint_send" /\ b'.pc = "mint_send")
           => (b.pc = "final_check" /\ walletChain = "arcTestnet")
      /\ \A s \in Slots :
           (c[s].pc # "mint_send" /\ c'[s].pc = "mint_send")
             => (c[s].pc = "final_check" /\ walletChain = c[s].dest)
      /\ (w.pc # "claim_send" /\ w'.pc = "claim_send")
           => (w.chain = "arcTestnet" \/ walletChain' = "arcTestnet") ]_vars

\* the stages of bridge() from the switch to the destination up to the mint receipt
MintStages == {"mint_switch", "verify", "final_check", "mint_send", "mint_wait",
               "sdk_mint", "sdk_mint_wait"}

\* C14: when the mint step of bridge() fails with an error classified as a
\* network or chain mismatch ("Network switch required"), the store holds the
\* record of the burn for the initiator, state.pendingBurn carries it and the
\* phase is pending_mint.
NetworkErrorKeepsRecord ==
  [][ (b.pc \in MintStages /\ b' = BIdle /\ toast' = "error:Network switch required")
        => /\ store'[b.addr] # Null /\ store'[b.addr].txHash = b.hash
           /\ state'.pendingBurn # Null /\ state'.pendingBurn.txHash = b.hash
           /\ attestationStatus' = "pending_mint" ]_vars

\* C15: when the mint step of bridge() fails with an error that is neither
\* already-minted nor a network mismatch, the store holds the record of the
\* burn for the initiator and the phase is pending_mint; when
\* claimPendingBridge fails that way, the store, state.pendingBurn and the
\* phase are left as they were.
MintFailureKeepsRecord ==
  [][ /\ (b.pc \in MintStages /\ b' = BIdle
            /\ toast' \in {"info:Mint transaction sent!", "error:Mint failed",
                           "warning:Your funds are safe!"})
           => /\ store'[b.addr] # Null /\ store'[b.addr].txHash = b.hash
              /\ attestationStatus' = "pending_mint"
      /\ \A s \in Slots :
           (c[s].pc # "idle" /\ c'[s].pc = "idle" /\ toast' = "error:Claim failed")
             => /\ store' = store
                /\ state'.pendingBurn = state.pendingBurn
                /\ attestationStatus' = attestationStatus ]_vars

WPreBurnFailureIdle ==
  [][ ((WSourceSwitch \/ WPrepare \/ WBurnSend) /\ w'.pc = "idle")
        => /\ w.hash = "null" /\ burn' = burn /\ nextHash' = nextHash
           /\ store' = store
           /\ w'.state.step = "idle"
           /\ ~w'.state.isBridging
           /\ w'.state.burnTxHash = "null"
           /\ w'.state.error # "null" ]_vars


\* C17  restorePendingBurn turns away every text that is not a well-formed
\* transaction hash (empty, not starting with 0x, or not 0x followed by 64
\* hexadecimal digits) before it makes any network call: the call ends at
\* once, no attestation query is started, no record is written and the
\* pending burn and the attestation status of the hook stay as they were.
WellFormedHash(s) ==
  /\ s # ""
  /\ Text(s).startsWith0x
  /\ Text(s).length = HASH_LENGTH
  /\ Text(s).hexDigits

RestoreRejectsInvalidShape ==
  [][ \A h \in TxHashInputs, from \in Networks :
        (RestorePendingBurn(h, from) /\ ~WellFormedHash(h))
          => /\ x'.pc = "idle"
             /\ store' = store
             /\ state' = state
             /\ attestationStatus' = attestationStatus ]_vars


\* C18  Scenario C: a restore of a hash that passed the shape tests, to which
\* the attestation service answers with no message under the Sepolia
\* hypothesis and none under the Arc hypothesis (a query that fails counts
\* as no message), ends with the failure "No CCTP burn found"; no record is
\* written, and state.pendingBurn and attestationStatus stay as they were.
NoMessageFor(h) ==
  \A d \in Networks : \A resp \in FetchAttestation(d, h) : ~hasMessages(resp)

RestoreNotFound ==
  [][ (x.pc # "idle" /\ x' # x /\ RestoreFetch)
        => /\ (NoMessageFor(x.hash) /\ x.pc = "fetch1")
                => (x'.pc = "fetch2" /\ toast' = toast)
           /\ (NoMessageFor(x.hash) /\ x.pc = "fetch2")
                => (x' = XIdle
                    /\ toast' = "restore:No CCTP burn found for this transaction")
           /\ ( \/ NoMessageFor(x.hash)
                \/ x'.pc = "fetch2"
                \/ toast' = "restore:No CCTP burn found for this transaction" )
                => /\ store' = store
                   /\ state'.pendingBurn = state.pendingBurn
                   /\ attestationStatus' = attestationStatus ]_vars

\* a restore has ended with "No CCTP burn found" and left nothing behind
RestoreNotFoundHappened ==
  /\ x = XIdle
  /\ toast = "restore:No CCTP burn found for this transaction"
  /\ store[address] = Null
  /\ state.pendingBurn = Null
  /\ attestationStatus = "null"


\* C19  restorePendingBurn detects the direction itself: the record it writes
\* names as source the chain of the hypothesis under which the attestation
\* service answered with a message (which is the chain the burn was made on)
\* and as destination the other chain, whatever fromNetwork and toNetwork it
\* was called with; and a claim of a record with that direction submits its
\* mint with the wallet on the record's destination chain.
RestoreDetectsDirection ==
  [][ /\ (x.pc # "idle" /\ x' = XIdle /\ RestoreFetch
           /\ toast' = "restore:Found USDC. Click Claim to receive!")
          => /\ store'[x.addr] = state'.pendingBurn
             /\ state'.pendingBurn.txHash = x.hash
             /\ state'.pendingBurn.fromNetwork = restoreHypothesis
             /\ state'.pendingBurn.fromNetwork = burnFrom[x.hash]
             /\ state'.pendingBurn.toNetwork = OtherNetwork(burnFrom[x.hash])
      /\ \A s \in Slots :
            (mintTxs' # mintTxs /\ ClaimMintSend(s)
             /\ c[s].rec.fromNetwork = burnFrom[c[s].rec.txHash])
              => /\ c[s].dest = c[s].rec.toNetwork
                 /\ walletChain = c[s].rec.toNetwork ]_vars

\* an Arc-to-Sepolia burn was restored and its claim has submitted the mint on
\* Sepolia
RestoredArcBurnClaimed ==
  /\ toast = "restore:Found USDC. Click Claim to receive!"
  /\ \E s \in Slots :
       /\ c[s].pc = "mint_wait"
       /\ c[s].rec = store[address]
       /\ c[s].rec.fromNetwork = "arcTestnet"
       /\ burnFrom[c[s].rec.txHash] = "arcTestnet"
       /\ mintTxs[c[s].rec.txHash] > 0
       /\ walletChain = "ethereumSepolia"


\* C20  A placeholder proof is never taken for a proof: whichever path has gone
\* past its attestation test (the polling of bridge, claimPendingBridge, the
\* polling of bridgeToArc) holds an attestation that is neither missing nor
\* empty nor 'PENDING', and whichever path has submitted its mint transaction
\* has submitted it with such an attestation and with the message bytes.
PastAttestationTest ==
  [bridge |-> {"mint_switch", "verify", "final_check", "mint_send", "mint_wait"},
   claim  |-> {"switch", "verify", "final_check", "mint_send", "mint_wait"},
   wrap   |-> {"claim_switch", "claim_send", "claim_wait"}]

IsProof(attestation) == attestation \notin {"null", "", "PENDING"}

HasBytes(messageBytes) == messageBytes \notin {"null", ""}

PlaceholderNeverMinted ==
  /\ b.pc \in PastAttestationTest.bridge => IsProof(b.attestationBytes)
  /\ b.pc = "mint_wait" => HasBytes(b.messageBytes)
  /\ \A s \in Slots :
       /\ c[s].pc \in PastAttestationTest.claim => IsProof(c[s].attestation)
       /\ c[s].pc = "mint_wait" => HasBytes(c[s].messageBytes)
  /\ w.pc \in PastAttestationTest.wrap => IsProof(w.attestation)
  /\ w.pc = "claim_wait" => HasBytes(w.messageBytes)


\* C21  In the attestation poll loops every poll that brings no usable proof
\* (the request fails, the answer is not 200, the body is malformed, the
\* attestation is still pending) uses up exactly one attempt and is followed
\* by the next poll; the loop never runs past its budget, and it reports
\* the timeout only when the budget is used up.
PollBudget ==
  [][ /\ (b.pc = "poll" /\ b' # b /\ BridgePoll)
           => /\ b'.pc = "poll" => (b'.attempts = b.attempts + 1 /\ b'.attempts < MAX_ATTEMPTS)
              /\ b' = BIdle => b.attempts + 1 = MAX_ATTEMPTS
      /\ (w.pc = "poll" /\ w' # w /\ WPoll)
           => /\ w'.pc = "poll"
                   => (w'.attempts = w.attempts + 1 /\ w'.attempts < ATTESTATION_MAX_ATTEMPTS)
              /\ w'.pc = "idle" => w.attempts + 1 = ATTESTATION_MAX_ATTEMPTS ]_vars

\* the same, leaving aside the answers that carry a signed attestation
PollBudgetUnlessSigned ==
  [][ /\ (b.pc = "poll" /\ b' # b /\ BridgePoll)
           => /\ b'.pc = "poll" => (b'.attempts = b.attempts + 1 /\ b'.attempts < MAX_ATTEMPTS)
              /\ b' = BIdle => (b.attempts + 1 = MAX_ATTEMPTS \/ att[b.hash] = "ready")
      /\ (w.pc = "poll" /\ w' # w /\ WPoll)
           => /\ w'.pc = "poll"
                   => (w'.attempts = w.attempts + 1 /\ w'.attempts < ATTESTATION_MAX_ATTEMPTS)
              /\ w'.pc = "idle" => w.attempts + 1 = ATTESTATION_MAX_ATTEMPTS ]_vars


\* C22  Cancellation: when the user dismisses the pending-mint notice
\* (clearPendingBurn), the persisted record of the current account is cleared
\* and whatever is in flight on behalf of the dismissed transfer (the poll
\* loop of bridge, a claim at its attestation query, its network switch or
\* its mint) is stopped, so that nothing more is done for that transfer.
Dismissed(h) ==
  \/ state.pendingBurn # Null /\ state.pendingBurn.txHash = h
  \/ store[address] # Null /\ store[address].txHash = h

DismissStopsTransfer ==
  [][ ClearPendingBurn
        => /\ store'[address] = Null
           /\ \A h \in Hashes :
                Dismissed(h)
                  => /\ b.hash = h => b' = BIdle
                     /\ \A s \in Slots :
                          (c[s].pc # "idle" /\ c[s].rec.txHash = h) => c'[s] = CIdle ]_vars


\* the same for reset() of the wrapper hook: a reset stops the running bridgeToArc
WResetStopsPolling ==
  [][ WReset => w'.pc = "idle" ]_vars


\* C23  Point of no cancellation: while a mint transaction has been submitted
\* and its outcome has not been seen yet (bridge or a claim is waiting for
\* the mint receipt), no operation cancels the transfer: clearPendingBurn
\* deletes no persisted record and does not reset the phase.
MintAwaitingReceipt ==
  \/ b.pc = "mint_wait"
  \/ \E s \in Slots : c[s].pc = "mint_wait"

NoCancelAfterMintSubmitted ==
  [][ (MintAwaitingReceipt /\ ClearPendingBurn)
        => /\ store' = store
           /\ state'.pendingBurn = state.pendingBurn
           /\ attestationStatus' = attestationStatus ]_vars


\* C24  Reconciler with no proof yet: when the effect finds the persisted record
\* of a confirmed burn and the attestation service answers that it has no usable proof for it
\* (no message, or an attestation that is missing or pending), the record
\* stays in the store, the phase reported is the awaiting-attestation one
\* ('pending') and the polling for that burn is running again, so that the
\* transfer can go on by itself once the proof exists.
NoProofAnswers ==
  { resp \in Responses :
      \/ resp.kind \in {"http_error", "empty"}
      \/ resp.kind = "msg" /\ ~attestationUsable(resp) }

ReconcilerAwaitsProof ==
  [][ (r.pc = "verify" /\ r' # r /\ r.saved.txHash \in Hashes
       /\ burn[r.saved.txHash] = "confirmed")
        => \A resp \in NoProofAnswers \cap FetchAttestation(r.saved.fromNetwork, r.saved.txHash),
              decoded \in BOOLEAN :
             (VerifyAndLoad /\ verifyAndLoadOn(resp, decoded))
               => /\ store'[r.addr] # Null
                  /\ store'[r.addr].txHash = r.saved.txHash
                  /\ attestationStatus' = "pending"
                  /\ \/ b'.pc = "poll" /\ b'.hash = r.saved.txHash
                     \/ \E s \in Slots : /\ c'[s].pc \in {"fetch1", "fetch2"}
                                         /\ c'[s].rec.txHash = r.saved.txHash ]_vars


\* C25  claimPendingBridge starts from wherever the proof of the burn stands:
\* called for the record of a confirmed burn whose attestation is not there
\* yet, it goes on asking for it (within its attempt bound) instead of ending
\* at once with an error.
ClaimWaitsForProof ==
  [][ \A s \in Slots :
        ( /\ c[s].pc \in {"fetch1", "fetch2"}
          /\ c'[s] # c[s]
          /\ ClaimFetch(s)
          /\ c[s].rec.txHash \in Hashes
          /\ burn[c[s].rec.txHash] = "confirmed"
          /\ att[c[s].rec.txHash] # "ready"
          /\ c[s].attempts + 1 < MAX_ATTEMPTS )
          => /\ c'[s].pc \in {"fetch1", "fetch2"}
             /\ state'.error = state.error
             /\ toast' # "error:Claim failed" ]_vars


\* C26  When the reconciler finds a record whose proof is available, it
\* triggers the automatic claim exactly when the wallet (as the effect saw
\* it) is on the destination chain of that record, and otherwise triggers no
\* claim and only tells the user to switch or to claim by hand; this for
\* records of both directions.
ProofAnswers == { resp \in Responses : hasMessages(resp) /\ attestationUsable(resp) }

AutoClaimIffOnDestination ==
  [][ (r.pc = "verify" /\ r' # r)
        => \A resp \in ProofAnswers \cap FetchAttestation(r.saved.fromNetwork, r.saved.txHash),
              decoded \in BOOLEAN :
             (VerifyAndLoad /\ verifyAndLoadOn(resp, decoded))
               => IF r.chain = r.saved.toNetwork
                    THEN /\ autoClaimTimer'
                         /\ toast' = "info:Auto-claiming bridged USDC..."
                    ELSE /\ autoClaimTimer' = autoClaimTimer
                         /\ toast' = "info:You have unclaimed USDC!" ]_vars

\* the same for the records whose destination is Arc
AutoClaimIffOnArc ==
  [][ (r.pc = "verify" /\ r' # r /\ r.saved.toNetwork = "arcTestnet")
        => \A resp \in ProofAnswers \cap FetchAttestation(r.saved.fromNetwork, r.saved.txHash),
              decoded \in BOOLEAN :
             (VerifyAndLoad /\ verifyAndLoadOn(resp, decoded))
               => IF r.chain = r.saved.toNetwork
                    THEN /\ autoClaimTimer'
                         /\ toast' = "info:Auto-claiming bridged USDC..."
                    ELSE /\ autoClaimTimer' = autoClaimTimer
                         /\ toast' = "info:You have unclaimed USDC!" ]_vars


\* C27  A mint counts as done (record cleared, phase complete) only when the
\* receipt of the mint transaction reports success, that is when the message
\* has been received on the destination chain: a mint transaction that is
\* mined but reverted leaves the record where it is and reports no
\* completion. For the receipt steps of bridge, claimPendingBridge and
\* executeClaimOnArc.
MintSuccessNeedsReceiptSuccess ==
  [][ /\ (b.pc = "mint_wait" /\ BridgeMintReceipt /\ attestationStatus' = "complete"
          /\ toast' = "success:Bridge completed!")
           => b.hash \in minted'
      /\ \A s \in Slots :
           (c[s].pc = "mint_wait" /\ ClaimMintReceipt(s)
            /\ toast' = "success:USDC claimed successfully!"
            /\ attestationStatus' = "complete")
             => c[s].rec.txHash \in minted'
      /\ (w.pc = "claim_wait" /\ WClaimReceipt /\ w'.state.step = "complete")
           => w.hash \in minted' ]_vars

\* the same for the receipt step of bridge alone
BridgeMintSuccessNeedsReceiptSuccess ==
  [][ (b.pc = "mint_wait" /\ BridgeMintReceipt /\ attestationStatus' = "complete"
       /\ toast' = "success:Bridge completed!")
        => b.hash \in minted' ]_vars


\* C28  The awaiting-attestation phase is entered only for a burn whose receipt
\* reports success: bridgeToArc reaches the step 'waiting_attestation' (and
\* starts its polling) and bridge reaches the phase 'pending' only with the
\* burn confirmed on the source chain, never with a burn that was only
\* submitted or was mined and reverted.
AwaitingOnlyAfterConfirmedBurn ==
  [][ /\ (w.pc = "burn_wait" /\ WBurnReceipt /\ w'.state.step = "waiting_attestation")
           => burn'[w.hash] = "confirmed"
      /\ (b.pc \in {"burn_wait", "sdk_burn_wait"} /\ b'.pc \in {"poll", "sdk_att"}
          /\ (BridgeBurnReceipt \/ SdkBurnWait))
           => (burn'[b.hash] = "confirmed" /\ attestationStatus' = "pending") ]_vars


\* C29  Complete implies no record: whenever the phase reported by the hook is
\* 'complete', the record store holds no record for the current account,
\* whatever bridge, claim, restore, dismiss and reconciler steps came before.
CompleteImpliesNoRecord ==
  attestationStatus = "complete" => store[address] = Null

\* C30  Whenever the phase reported is 'pending_mint', the record of the burn
\* is both in state.pendingBurn and in the record store (under the account
\* that made the burn), so that the claim survives a reload of the page.
PendingMintImpliesRecord ==
  attestationStatus = "pending_mint"
    => /\ state.pendingBurn # Null
       /\ \E a \in Addresses : /\ store[a] # Null
                               /\ store[a].txHash = state.pendingBurn.txHash


\* the stages of a mint before its transaction has been submitted
BeforeMintSubmitted == {"mint_switch", "switch", "verify", "final_check", "mint_send"}

\* C31  A mint failure is taken for an already-completed mint only when the
\* destination has in fact received the message (its nonce is used): a step in
\* which bridge() or claimPendingBridge() fails before its mint transaction is
\* submitted and reports complete happens only for a burn that is minted.
AlreadyMintedOnlyOnUsedNonce ==
  [][ /\ (b.pc \in BeforeMintSubmitted /\ b' = BIdle /\ attestationStatus' = "complete")
           => b.hash \in minted
      /\ \A s \in Slots :
           (c[s].pc \in BeforeMintSubmitted /\ c'[s] = CIdle
              /\ toast' = "success:Transfer already completed!")
             => c[s].rec.txHash \in minted ]_vars

\* C31, claimPendingBridge alone: its catch tests 'already received' and
\* 'Nonce already used', and reports complete only for a minted burn.
ClaimAlreadyMintedOnlyOnUsedNonce ==
  [][ \A s \in Slots :
        (c[s].pc \in BeforeMintSubmitted /\ c'[s] = CIdle
           /\ toast' = "success:Transfer already completed!")
          => c[s].rec.txHash \in minted ]_vars

\* C31, bridgeToArc: the catch around its automatic claim reports complete
\* before the claim is submitted only for a minted burn.
WAlreadyMintedOnlyOnUsedNonce ==
  [][ (w.pc \in {"claim_switch", "claim_send"} /\ w'.pc = "idle"
         /\ w'.state.step = "complete")
        => w.hash \in minted ]_vars


\* the toasts of verifyAndLoad when the service has a message for the record
ReconcilerToasts == {"info:Bridge in progress...", "info:Auto-claiming bridged USDC...",
                     "info:You have unclaimed USDC!"}

\* C32  The reconciler changes a persisted record only by backfilling its
\* amount: when the service has a message for the record, the record
\* verifyAndLoad writes back to the store and to state.pendingBurn has the
\* txHash, fromNetwork, toNetwork and timestamp of the record it loaded, and
\* the same amount unless the loaded amount was '0'.
ReconcilerOnlyBackfillsAmount ==
  [][ (/\ r.pc = "verify" /\ r' = RIdle
       /\ \E resp \in FetchAttestation(r.saved.fromNetwork, r.saved.txHash),
             decoded \in BOOLEAN :
            hasMessages(resp) /\ verifyAndLoadOn(resp, decoded))
        => /\ store'[r.addr] # Null
           /\ toast' \in ReconcilerToasts
           /\ state'.pendingBurn = store'[r.addr]
           /\ store'[r.addr].txHash = r.saved.txHash
           /\ store'[r.addr].fromNetwork = r.saved.fromNetwork
           /\ store'[r.addr].toNetwork = r.saved.toNetwork
           /\ store'[r.addr].timestamp = r.saved.timestamp
           /\ (r.saved.amount # "0" => store'[r.addr].amount = r.saved.amount)
           /\ store'[r.addr].amount \in {r.saved.amount, apiAmount} ]_vars

\* C32 witness: the reconciler has written back a record made before the page
\* was loaded, and no later operation has touched it
ReconcilerWroteBack ==
  /\ r.pc = "idle"
  /\ toast \in ReconcilerToasts
  /\ store[address] # Null
  /\ store[address].timestamp < now
  /\ state.pendingBurn = store[address]


\* C33  A record that has been removed from the store is not written back by
\* a reconciler verification that began before the removal: when verifyAndLoad
\* ends while the store holds no record for its account, the store still holds
\* none afterwards.
NoStaleWriteBack ==
  [][ (r.pc = "verify" /\ r' = RIdle /\ store[r.addr] = Null)
        => store'[r.addr] = Null ]_vars

\* C33, the poll loop of bridge(): when the record of the running burn was
\* restored and then dismissed while bridge() was polling, the timeout of the
\* loop does not write it back.
NoStaleWriteBackByTimeout ==
  [][ (b.pc = "poll" /\ b' = BIdle /\ store[b.addr] = Null
         /\ attestationStatus = "null"
         /\ toast = "restore:Found USDC. Click Claim to receive!")
        => store'[b.addr] = Null ]_vars


\* C34  bridge() never returns with the hook left in the bridging state:
\* whenever no bridge() call is running, isBridging is false.
ReturnedBridgeNotBridging ==
  b.pc = "idle" => ~state.isBridging


\* a record names the burn transaction of a transfer: its txHash is the hash of
\* a burn that was submitted
NamesBurn(rec) == rec # Null => (rec.txHash \in Hashes /\ burn[rec.txHash] # "none")

\* C35  Every pending-burn record the hook holds, in state.pendingBurn or in
\* the record store, has a txHash that is not null and is the hash of a burn
\* transaction.
RecordsCarryBurnHash ==
  /\ NamesBurn(state.pendingBurn)
  /\ \A a \in Addresses : NamesBurn(store[a])


\* C36  In useBridgeSolana the phase complete is absorbing for the kit's
\* promise: a step in which a bridgeToSolana / bridgeFromSolana call ends, by
\* resolution or by rejection, while attestationStatus is 'complete' leaves
\* the whole bridge state as it was.
SolanaCompleteAbsorbing ==
  [][ \A k \in SolCalls :
        (sol.call[k].pc \notin SolEnded /\ sol'.call[k].pc \in {"resolved", "rejected"}
           /\ sol.state.attestationStatus = "complete")
          => sol'.state = sol.state ]_vars

\* C36 witness: the kit reported MINT_CONFIRMED, its promise was then rejected,
\* and the state is still the one MINT_CONFIRMED left
RejectedAfterMintConfirmed ==
  \E k \in SolCalls :
    /\ sol.call[k].pc = "rejected"
    /\ sol.call[k].mintConfirmed
    /\ sol.state.attestationStatus = "complete"
    /\ ~sol.state.isBridging
    /\ sol.state.error = "null"
    /\ sol.state.result = "null"


\* the positions of bridgeToArc after its burn receipt
WPostBurn == {"poll", "claim_switch", "claim_send", "claim_wait"}

\* C37  In useBridgeWrapperSepolia, the step of bridgeToArc in which its burn
\* is confirmed sets the step to waiting_attestation and keeps burnTxHash, and
\* no later step of the call (poll, timeout, claim success, rejection or
\* failure) changes burnTxHash or brings the step back to idle; only reset()
\* does.
WBurnStaysVisible ==
  [][ /\ (w.pc = "burn_wait" /\ burn'[w.hash] = "confirmed")
           => /\ w'.state.step = "waiting_attestation"
              /\ w'.state.burnTxHash = w.state.burnTxHash
      /\ (w.pc \in WPostBurn /\ (w'.pc # w.pc \/ w'.attempts # w.attempts))
           => /\ w'.state.burnTxHash = w.state.burnTxHash
              /\ (w.state.step # "idle" => w'.state.step # "idle") ]_vars

\* C37 witness: the automatic claim of a confirmed burn was rejected and the
\* hook still shows the burn, waiting for its attestation
WClaimRejectedBurnVisible ==
  /\ w.pc = "idle"
  /\ w.state.step = "waiting_attestation"
  /\ w.state.error = "Claim transaction rejected"
  /\ w.state.burnTxHash \in Hashes
  /\ burn[w.state.burnTxHash] = "confirmed"


\* C38  The polling guard of useBridgeWrapperSepolia is always released: when
\* bridgeToArc returns from its poll-or-claim cycle isPollingRef is false, and
\* isPollingRef is true only while such a cycle is in flight.
WPollingGuardReleased ==
  [][ /\ (w.pc \in WPostBurn /\ w'.pc = "idle") => ~w'.isPollingRef
      /\ w'.isPollingRef => w'.pc \in WPostBurn ]_vars

\* C38 witness: the poll loop of bridgeToArc has timed out and the guard is free
WTimedOutGuardFree ==
  /\ w.pc = "idle"
  /\ w.state.step = "waiting_attestation"
  /\ w.state.error = "Attestation timeout after 5 minutes"
  /\ w.state.burnTxHash \in Hashes
  /\ ~w.isPollingRef


\* C39  In BridgeWrapper.sol feeBasisPoints never exceeds MAX_FEE_BP, whatever
\* the constructor and setFee are called with; every fee computed for an
\* amount satisfies fee + bridgeAmount = amount and fee <= amount / 10; and
\* the subtraction amount - fee never underflows.
FeeBounded ==
  /\ contract.feeBasisPoints <= MAX_FEE_BP
  /\ contract.last.outcome # "underflow"
  /\ contract.last.outcome = "ok" /\ contract.last.fn \in {"bridgeToSepolia", "bridge", "calculateFee"}
       => /\ contract.last.fee + contract.last.bridgeAmount = contract.last.amount
          /\ contract.last.fee <= contract.last.amount \div 10

\* C39 witness: the owner has raised the fee to the maximum and a bridge call
\* has then charged a fee
MaxFeeCharged ==
  /\ contract.feeBasisPoints = MAX_FEE_BP
  /\ contract.last.fn \in {"bridgeToSepolia", "bridge"}
  /\ contract.last.outcome = "ok"
  /\ contract.last.fee > 0
  /\ contract.totalFeesCollected > 0

====
